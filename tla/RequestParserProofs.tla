------------------------- MODULE RequestParserProofs -------------------------
(***************************************************************************)
(* What holds of the parser for every alphabet, every width of size_t and  *)
(* every sequence of characters, also those no request of the runs has:    *)
(* of RequestParser, and of RequestFraming, whatever the requests and the  *)
(* buffer are.  Neither needs to know what the peer sends: what is not in  *)
(* the table is refused and stored nowhere.                                *)
(***************************************************************************)
EXTENDS RequestFraming, SequenceTheorems, TLAPS

LineStates == {"method_start", "method", "uri", "http_version_h", "http_version_t_1",
  "http_version_t_2", "http_version_p", "http_version_slash",
  "http_version_major_start", "http_version_major", "http_version_minor_start",
  "http_version_minor", "expecting_newline_1"}
OpenStates == {"header_name", "space_before_header_value", "header_value"}
EndedStates == {"header_line_start", "header_lws", "expecting_newline_2",
  "expecting_newline_3"}

\* The length is that of the last of the headers I, or zero if there is none.
DeclaredBy(I) ==
  IF I = {} THEN expectedContentLength = 0
  ELSE \E last \in I :
         /\ \A j \in I : j <= last
         /\ IsNumber(headers[last].value)
         /\ expectedContentLength = stoul(headers[last].value)

\* No header before the first line is complete, no open line without a header.
HeadersBegin ==
  /\ state_ \in LineStates => headers = <<>> /\ expectedContentLength = 0
  /\ state_ \in OpenStates \cup {"header_lws"} => headers # <<>>

\* The length follows the headers, a line behind: while a line is open its own
\* header counts only once its name is known, and then not for a length.  An
\* exception leaves the length behind at the end of the line that caused it.
LengthFollows ==
  IF result = "threw" THEN state_ = "expecting_newline_2" ELSE
    /\ state_ \in EndedStates \cup BodyStates => DeclaredBy(LengthHeaders)
    /\ state_ = "header_name" => DeclaredBy(LengthHeaders \ {Len(headers)})
    /\ state_ \in {"space_before_header_value", "header_value"} /\ back.name # <<CL>>
         => DeclaredBy(LengthHeaders)

\* The counter is the length of the body, which begins after the headers of a
\* request that declared one; a line end at or after that length would have ended it.
BodyCounted ==
  /\ contentCtr = Len(jsonData)
  /\ state_ \notin BodyStates => jsonData = <<>>
  /\ state_ \in BodyStates => expectedContentLength > 0
  /\ result # "true" =>
       \A i \in DOMAIN jsonData : jsonData[i] = LF => i < expectedContentLength

\* The state of the body tells whether its last character opened a line end.
LineEnds ==
  result # "true" =>
    (state_ = "body_content_expect_newline" <=>
       jsonData # <<>> /\ jsonData[Len(jsonData)] = CR)

IInv ==
  /\ TypeOK
  /\ HeadersBegin
  /\ LengthFollows
  /\ BodyCounted
  /\ BodyFramed
  /\ LineEnds
  /\ LinesPaired

-----------------------------------------------------------------------------
\* The table leads through the request line, then from line to line of the headers,
\* and from the empty line to the body, which it does not leave.
LEMMA TableRows ==
  ASSUME NEW r \in Table
  PROVE  \/ r.from \in LineStates /\ r.to \in LineStates
         \/ r.from = "expecting_newline_1" /\ r.to = "header_line_start"
         \/ r = Row("header_line_start", {CR}, "expecting_newline_3")
         \/ r = Row("header_line_start", Continuation, "header_lws")
         \/ r = Row("header_line_start", Token, "header_name")
         \/ r = Row("header_lws", {CR}, "expecting_newline_2")
         \/ r = Row("header_lws", Blank, "header_lws")
         \/ r = Row("header_lws", Printable \ Blank, "header_value")
         \/ r = Row("header_name", {":"}, "space_before_header_value")
         \/ r = Row("header_name", Token, "header_name")
         \/ r = Row("space_before_header_value", {SP}, "header_value")
         \/ r = Row("header_value", {CR}, "expecting_newline_2")
         \/ r = Row("header_value", Printable, "header_value")
         \/ r = Row("expecting_newline_2", {LF}, "header_line_start")
         \/ r = Row("expecting_newline_3", {LF}, "body_content_normal")
         \/ r = Row("body_content_normal", {CR}, "body_content_expect_newline")
         \/ r = Row("body_content_normal", Printable, "body_content_normal")
         \/ r = Row("body_content_expect_newline", {LF}, "body_content_normal")
<1>1. CASE r \in RequestLine
  BY <1>1 DEF RequestLine, Row, LineStates
<1>2. CASE r \in HeaderLines
  <2> HIDE DEF Row, Continuation, Token, Blank, Printable
  <2> QED
    BY <1>2 DEF HeaderLines
<1>3. CASE r \in Body
  <2> HIDE DEF Row, Printable
  <2> QED
    BY <1>3 DEF Body
<1> QED
  BY <1>1, <1>2, <1>3 DEF Table

\* Every state has a row, and only characters of the alphabet are in one.
LEMMA TableStates ==
  /\ States = LineStates \cup OpenStates \cup EndedStates \cup BodyStates
  /\ \A r \in Table : r.to \in LineStates \cup OpenStates \cup EndedStates \cup BodyStates
<1>1. \A r \in Table : r.from \in LineStates \cup OpenStates \cup EndedStates \cup BodyStates
  BY TableRows DEF Row, LineStates, OpenStates, EndedStates, BodyStates
<1>2. LineStates \subseteq {r.from : r \in RequestLine}
  BY DEF LineStates, RequestLine, Row
<1>3. OpenStates \cup EndedStates \subseteq {r.from : r \in HeaderLines}
  BY DEF OpenStates, EndedStates, HeaderLines, Row
<1>4. BodyStates \subseteq {r.from : r \in Body}
  BY DEF BodyStates, Body, Row
<1>5. \A r \in Table : r.to \in LineStates \cup OpenStates \cup EndedStates \cup BodyStates
  BY TableRows DEF Row, LineStates, OpenStates, EndedStates, BodyStates
<1>6. States = LineStates \cup OpenStates \cup EndedStates \cup BodyStates
  BY <1>1, <1>2, <1>3, <1>4 DEF States, Table
<1> QED
  BY <1>5, <1>6

\* The conditions of consume name characters of the alphabet only.
LEMMA TableChars == \A r \in Table : r.on \subseteq Chars
<1>1. /\ Token \subseteq Chars /\ Printable \subseteq Chars /\ Blank \subseteq Chars
      /\ Digit \subseteq Chars /\ Continuation \subseteq Chars
  BY DEF Token, Printable, Blank, Continuation, Chars, Tspecial
<1>2. {CR, LF, SP, ":", "/", "H", "T", "P", "."} \subseteq Chars
  BY AlphabetAssumption DEF Chars, Ctl, Tspecial
<1> HIDE DEF Token, Printable, Blank, Continuation, Chars, CR, LF, SP
<1>3. \A r \in RequestLine : r.on \subseteq Chars
  BY <1>1, <1>2 DEF RequestLine, Row
<1>4. \A r \in HeaderLines : r.on \subseteq Chars
  BY <1>1, <1>2 DEF HeaderLines, Row
<1>5. \A r \in Body : r.on \subseteq Chars
  BY <1>1, <1>2 DEF Body, Row
<1> QED
  BY <1>3, <1>4, <1>5 DEF Table

\* What stoul returns, when it returns, fits its type, also when it negates.
LEMMA StoulFits ==
  ASSUME NEW value, IsNumber(value)
  PROVE  stoul(value) \in 0..SizeMax
BY BoundsAssumption DEF IsNumber, stoul

-----------------------------------------------------------------------------
\* A character that the table has a row for, other than one that ends the request.
Taken(r, c) ==
  /\ r \in Table /\ r.from = state_ /\ c \in r.on
  /\ ~completes(c)
  /\ result = "indeterminate"
  /\ state_' = r.to
  /\ store(r, c)
  /\ \/ /\ ends_length(r) /\ IsNumber(back.value)
        /\ expectedContentLength' = stoul(back.value)
        /\ result' = "indeterminate"
     \/ /\ ends_length(r) /\ ~IsNumber(back.value)
        /\ result' = "threw"
        /\ UNCHANGED expectedContentLength
     \/ /\ ~ends_length(r)
        /\ result' = "indeterminate"
        /\ UNCHANGED expectedContentLength

\* Another header in the place of the last one.
LEMMA LastHeader ==
  ASSUME NEW h \in Seq(HeaderType), h # <<>>, NEW x \in HeaderType,
         NEW g, g = [h EXCEPT ![Len(h)] = x]
  PROVE  /\ g \in Seq(HeaderType) /\ Len(g) = Len(h) /\ g # <<>>
         /\ \A i \in 1..Len(h) : i # Len(h) => g[i] = h[i]
         /\ g[Len(h)] = x
<1>1. Len(h) \in 1..Len(h)
  OBVIOUS
<1> QED
  BY <1>1

\* The last header with a character more in its name, or in its value.
NameGrown(h, c) == [h EXCEPT ![Len(h)].name = Append(@, c)]
ValueGrown(h, c) == [h EXCEPT ![Len(h)].value = Append(@, c)]

\* What is appended to its name leaves its value and the other headers alone.
LEMMA NameGrows ==
  ASSUME NEW h \in Seq(HeaderType), h # <<>>, NEW c \in Chars,
         NEW g, g = NameGrown(h, c)
  PROVE  /\ g \in Seq(HeaderType) /\ Len(g) = Len(h) /\ g # <<>>
         /\ \A i \in 1..Len(h) : i # Len(h) => g[i] = h[i]
         /\ g[Len(h)].name = Append(h[Len(h)].name, c)
         /\ g[Len(h)].value = h[Len(h)].value
<1>1. PICK old : old = h[Len(h)]
  OBVIOUS
<1>2. old \in HeaderType
  BY <1>1
<1>3. PICK x : x = [old EXCEPT !.name = Append(@, c)]
  OBVIOUS
<1>4. x = [name |-> Append(old.name, c), value |-> old.value]
  BY <1>2, <1>3 DEF HeaderType
<1>5. x \in HeaderType /\ x.name = Append(old.name, c) /\ x.value = old.value
  <2>1. old.name \in Seq(Chars) /\ old.value \in Seq(Chars)
    BY <1>2 DEF HeaderType
  <2>2. Append(old.name, c) \in Seq(Chars)
    BY <2>1, AppendProperties
  <2> QED
    BY <1>4, <2>1, <2>2 DEF HeaderType
<1>6. g = [h EXCEPT ![Len(h)] = x]
  BY <1>1, <1>3 DEF NameGrown
<1>7. /\ g \in Seq(HeaderType) /\ Len(g) = Len(h) /\ g # <<>>
      /\ \A i \in 1..Len(h) : i # Len(h) => g[i] = h[i]
      /\ g[Len(h)] = x
  BY <1>5, <1>6, LastHeader
<1> QED
  BY <1>1, <1>5, <1>7

\* What is appended to its value leaves its name and the other headers alone.
LEMMA ValueGrows ==
  ASSUME NEW h \in Seq(HeaderType), h # <<>>, NEW c \in Chars,
         NEW g, g = ValueGrown(h, c)
  PROVE  /\ g \in Seq(HeaderType) /\ Len(g) = Len(h) /\ g # <<>>
         /\ \A i \in 1..Len(h) : i # Len(h) => g[i] = h[i]
         /\ g[Len(h)].name = h[Len(h)].name
         /\ g[Len(h)].value = Append(h[Len(h)].value, c)
<1>1. PICK old : old = h[Len(h)]
  OBVIOUS
<1>2. old \in HeaderType
  BY <1>1
<1>3. PICK x : x = [old EXCEPT !.value = Append(@, c)]
  OBVIOUS
<1>4. x = [name |-> old.name, value |-> Append(old.value, c)]
  BY <1>2, <1>3 DEF HeaderType
<1>5. x \in HeaderType /\ x.name = old.name /\ x.value = Append(old.value, c)
  <2>1. old.name \in Seq(Chars) /\ old.value \in Seq(Chars)
    BY <1>2 DEF HeaderType
  <2>2. Append(old.value, c) \in Seq(Chars)
    BY <2>1, AppendProperties
  <2> QED
    BY <1>4, <2>1, <2>2 DEF HeaderType
<1>6. g = [h EXCEPT ![Len(h)] = x]
  BY <1>1, <1>3 DEF ValueGrown
<1>7. /\ g \in Seq(HeaderType) /\ Len(g) = Len(h) /\ g # <<>>
      /\ \A i \in 1..Len(h) : i # Len(h) => g[i] = h[i]
      /\ g[Len(h)] = x
  BY <1>5, <1>6, LastHeader
<1> QED
  BY <1>1, <1>5, <1>7

\* The headers a row leaves behind.
LEMMA TakenHeaders ==
  ASSUME IInv, NEW r, NEW c, Taken(r, c)
  PROVE  /\ c \in Chars
         /\ headers' \in Seq(HeaderType)
         /\ IF r.from = "header_line_start" /\ r.to = "header_name"
            THEN headers' = Append(headers, [name |-> <<c>>, value |-> <<>>])
            ELSE /\ Len(headers') = Len(headers)
                 /\ \A i \in 1..Len(headers) :
                      \/ headers'[i] = headers[i]
                      \/ /\ i = Len(headers)
                         /\ \/ r.from = "header_name" /\ r.to = "header_name"
                            \/ /\ r.from \in {"header_lws", "header_value"}
                               /\ r.to = "header_value"
                               /\ headers'[i].name = headers[i].name
<1>1. c \in Chars
  BY TableChars DEF Taken
<1>2. headers \in Seq(HeaderType)
  BY DEF IInv, TypeOK
<1>3. CASE r.from = "header_line_start" /\ r.to = "header_name"
  <2>1. headers' = Append(headers, [name |-> <<c>>, value |-> <<>>])
    BY <1>3 DEF Taken, store
  <2>2. [name |-> <<c>>, value |-> <<>>] \in HeaderType
    BY <1>1 DEF HeaderType
  <2> QED
    BY <1>1, <1>2, <1>3, <2>1, <2>2, AppendProperties
<1>4. CASE r.from = "header_name" /\ r.to = "header_name"
  <2>1. headers' = NameGrown(headers, c)
    BY <1>4 DEF Taken, store, NameGrown
  <2>2. headers # <<>>
    BY <1>4 DEF Taken, IInv, HeadersBegin, OpenStates
  <2>3. /\ headers' \in Seq(HeaderType) /\ Len(headers') = Len(headers)
        /\ \A i \in 1..Len(headers) : i # Len(headers) => headers'[i] = headers[i]
    BY <1>1, <1>2, <2>1, <2>2, NameGrows
  <2>4. r.from # "header_line_start" /\ \A i \in 1..Len(headers) :
          headers'[i] = headers[i] \/ i = Len(headers)
    BY <1>4, <2>3
  <2> QED
    BY <1>1, <1>4, <2>3, <2>4
<1>5. CASE r.from \in {"header_lws", "header_value"} /\ r.to = "header_value"
  <2>1. headers' = ValueGrown(headers, c)
    BY <1>5 DEF Taken, store, ValueGrown
  <2>2. headers # <<>>
    BY <1>5 DEF Taken, IInv, HeadersBegin, OpenStates
  <2>3. /\ headers' \in Seq(HeaderType) /\ Len(headers') = Len(headers)
        /\ \A i \in 1..Len(headers) : i # Len(headers) => headers'[i] = headers[i]
        /\ headers'[Len(headers)].name = headers[Len(headers)].name
    BY <1>1, <1>2, <2>1, <2>2, ValueGrows
  <2>4. r.from # "header_line_start" /\ \A i \in 1..Len(headers) :
          \/ headers'[i] = headers[i]
          \/ i = Len(headers) /\ headers'[i].name = headers[i].name
    BY <1>5, <2>3
  <2> QED
    BY <1>1, <1>5, <2>3, <2>4
<1>6. CASE /\ ~(r.from = "header_line_start" /\ r.to = "header_name")
           /\ ~(r.from = "header_name" /\ r.to = "header_name")
           /\ ~(r.from \in {"header_lws", "header_value"} /\ r.to = "header_value")
  <2>1. headers' = headers
    BY <1>6 DEF Taken, store
  <2> QED
    BY <1>1, <1>2, <1>6, <2>1
<1> QED
  BY <1>3, <1>4, <1>5, <1>6

\* A character that consume takes leaves the request and the counters in their types.
LEMMA TakenTypes ==
  ASSUME IInv, NEW r, NEW c, Taken(r, c)
  PROVE  TypeOK'
<1>1. c \in Chars /\ headers' \in Seq(HeaderType)
  BY TakenHeaders
<1>2. uri' \in Seq(Chars) /\ jsonData' \in Seq(Chars) /\ contentCtr' \in Nat
  BY <1>1, AppendProperties DEF Taken, store, IInv, TypeOK
<1>3. r.to \in States'
  <2>1. (States = LineStates \cup OpenStates \cup EndedStates \cup BodyStates)'
    BY TableStates, PTL
  <2> QED
    BY <2>1, TableStates DEF Taken
<1>4. expectedContentLength' \in 0..SizeMax /\ result' \in Results
  BY StoulFits DEF Taken, IInv, TypeOK, Results
<1> QED
  BY <1>1, <1>2, <1>3, <1>4 DEF Taken, TypeOK

\* A character that consume takes opens a header before it fills one.
LEMMA TakenBegins ==
  ASSUME IInv, NEW r, NEW c, Taken(r, c)
  PROVE  HeadersBegin'
<1>1. CASE r.to \in LineStates
  <2>1. r.from \in LineStates
    BY <1>1, TableRows DEF Taken, Row, LineStates
  <2>2. UNCHANGED <<headers, expectedContentLength>>
    BY <2>1 DEF Taken, store, ends_length, LineStates
  <2> QED
    BY <1>1, <2>1, <2>2 DEF Taken, IInv, HeadersBegin, LineStates, OpenStates
<1>2. CASE r.to \in OpenStates \cup {"header_lws"}
  <2>1. \/ r.from \in OpenStates \cup {"header_lws"}
        \/ c \in Continuation
        \/ r.from = "header_line_start" /\ r.to = "header_name"
    BY <1>2, TableRows DEF Taken, Row, LineStates, OpenStates
  <2>2. CASE r.from = "header_line_start" /\ r.to = "header_name"
    <3>1. headers' # <<>>
      <4>1. /\ headers' = Append(headers, [name |-> <<c>>, value |-> <<>>])
            /\ headers \in Seq(HeaderType)
        BY <2>2, TakenHeaders DEF IInv, TypeOK
      <4> QED
        BY <4>1
    <3> QED
      BY <2>2, <3>1 DEF Taken, HeadersBegin, LineStates
  <2>3. CASE ~(r.from = "header_line_start" /\ r.to = "header_name")
    <3>1. headers # <<>>
      BY <2>1, <2>3 DEF Taken, IInv, HeadersBegin, Continuation
    <3>2. headers' # <<>>
      <4>1. Len(headers') = Len(headers) /\ headers \in Seq(HeaderType)
        BY <2>3, TakenHeaders DEF IInv, TypeOK
      <4> QED
        BY <3>1, <4>1
    <3> QED
      BY <1>2, <3>2 DEF Taken, HeadersBegin, LineStates, OpenStates
  <2> QED
    BY <2>2, <2>3
<1> QED
  BY <1>1, <1>2 DEF Taken, HeadersBegin

\* The length stays that of the last of the headers I when these stay what they are.
LEMMA DeclaredStays ==
  ASSUME NEW I, DeclaredBy(I), UNCHANGED expectedContentLength,
         \A i \in I : headers'[i] = headers[i]
  PROVE  DeclaredBy(I)'
BY DEF DeclaredBy

\* A character that consume takes keeps expectedContentLength that of the last header
\* Content-Length, read at the end of its line.
LEMMA TakenLength ==
  ASSUME IInv, NEW r, NEW c, Taken(r, c)
  PROVE  LengthFollows'
<1> SUFFICES ASSUME result' # "threw"
             PROVE  LengthFollows'
  BY DEF Taken, ends_length, LengthFollows
<1>state. /\ r \in Table /\ state_ = r.from /\ state_' = r.to /\ result # "threw"
          /\ headers \in Seq(HeaderType) /\ headers' \in Seq(HeaderType)
  BY TakenHeaders DEF Taken, IInv, TypeOK
<1>1. CASE r.to \in LineStates
  BY <1>1, <1>state DEF LengthFollows, LineStates, EndedStates, BodyStates
<1>2. CASE r.from = "expecting_newline_1" /\ r.to = "header_line_start"
  <2>1. headers' = <<>> /\ expectedContentLength' = 0
    BY <1>2 DEF Taken, store, ends_length, IInv, HeadersBegin, LineStates
  <2>2. LengthHeaders' = {}
    BY <2>1 DEF LengthHeaders
  <2> QED
    BY <1>2, <1>state, <2>1, <2>2 DEF LengthFollows, DeclaredBy
<1>3. ASSUME r.from \in EndedStates \cup BodyStates,
             r.to \in EndedStates \cup BodyStates
      PROVE  LengthFollows'
  <2>1. UNCHANGED <<headers, expectedContentLength>>
    BY <1>3 DEF Taken, store, ends_length, EndedStates, BodyStates
  <2>2. DeclaredBy(LengthHeaders)'
    BY <1>3, <1>state, <2>1 DEF IInv, LengthFollows, DeclaredBy, LengthHeaders
  <2> QED
    BY <1>3, <1>state, <2>2 DEF LengthFollows, EndedStates, BodyStates
<1>4. CASE r.from = "header_line_start" /\ r.to = "header_name"
  <2>1. PICK I : I = LengthHeaders
    OBVIOUS
  <2>2. /\ headers' = Append(headers, [name |-> <<c>>, value |-> <<>>])
        /\ expectedContentLength' = expectedContentLength
    BY <1>4, TakenHeaders DEF Taken, ends_length
  <2>3. /\ Len(headers') = Len(headers) + 1
        /\ \A i \in 1..Len(headers) : headers'[i] = headers[i]
    BY <1>state, <2>2
  <2>4. (LengthHeaders \ {Len(headers)})' = I
    BY <1>state, <2>1, <2>3 DEF LengthHeaders
  <2>5. DeclaredBy(I)
    BY <1>4, <1>state, <2>1 DEF IInv, LengthFollows, EndedStates
  <2>6. \A i \in I : headers'[i] = headers[i]
    BY <1>state, <2>1, <2>3 DEF LengthHeaders
  <2>7. DeclaredBy(I)'
    BY <2>2, <2>5, <2>6, DeclaredStays
  <2> QED
    BY <1>4, <1>state, <2>4, <2>7 DEF LengthFollows, DeclaredBy, EndedStates, BodyStates
<1>5. CASE r.from = "header_name" /\ r.to \in {"header_name", "space_before_header_value"}
  <2>1. PICK I : I = LengthHeaders \ {Len(headers)}
    OBVIOUS
  <2>2. /\ Len(headers') = Len(headers) /\ expectedContentLength' = expectedContentLength
        /\ \A i \in 1..Len(headers) : i # Len(headers) => headers'[i] = headers[i]
    BY <1>5, TakenHeaders DEF Taken, ends_length
  <2>3. (LengthHeaders \ {Len(headers)})' = I
    BY <1>state, <2>1, <2>2 DEF LengthHeaders
  <2>4. DeclaredBy(I)
    BY <1>5, <1>state, <2>1 DEF IInv, LengthFollows
  <2>5. \A i \in I : headers'[i] = headers[i]
    BY <1>state, <2>1, <2>2 DEF LengthHeaders
  <2>6. DeclaredBy(I)'
    BY <2>2, <2>4, <2>5, DeclaredStays
  <2>7. (back.name # <<CL>> => LengthHeaders = I)'
    BY <2>3 DEF LengthHeaders, back
  <2> QED
    BY <1>5, <1>state, <2>3, <2>6, <2>7
       DEF LengthFollows, DeclaredBy, EndedStates, BodyStates
<1>6. CASE \/ r.from = "header_lws" /\ r.to = "header_value"
           \/ r.from = "space_before_header_value" /\ r.to = "header_value"
           \/ r.from = "header_value" /\ r.to = "header_value"
  <2>1. PICK I : I = LengthHeaders
    OBVIOUS
  <2>2. /\ Len(headers') = Len(headers) /\ expectedContentLength' = expectedContentLength
        /\ \A i \in 1..Len(headers) :
             /\ i # Len(headers) => headers'[i] = headers[i]
             /\ headers'[i].name = headers[i].name
    BY <1>6, TakenHeaders DEF Taken, ends_length
  <2>3. headers # <<>>
    BY <1>6, <1>state DEF IInv, HeadersBegin, OpenStates
  <2>4. LengthHeaders' = I /\ back'.name = back.name
    BY <1>state, <2>1, <2>2, <2>3 DEF LengthHeaders, back
  <2>5. ASSUME back.name # <<CL>>
        PROVE  DeclaredBy(I)'
    <3>1. DeclaredBy(I)
      BY <1>6, <1>state, <2>1, <2>5 DEF IInv, LengthFollows, EndedStates
    <3>2. \A i \in I : headers'[i] = headers[i]
      BY <1>state, <2>1, <2>2, <2>5 DEF LengthHeaders, back
    <3> QED
      BY <2>2, <3>1, <3>2, DeclaredStays
  <2> QED
    BY <1>6, <1>state, <2>4, <2>5 DEF LengthFollows, DeclaredBy, EndedStates, BodyStates
<1>7. CASE r.from = "header_value" /\ r.to = "expecting_newline_2"
  <2>1. headers' = headers /\ headers # <<>>
    BY <1>7, <1>state DEF Taken, store, IInv, HeadersBegin, OpenStates
  <2>2. DeclaredBy(LengthHeaders)'
    <3>1. CASE back.name = <<CL>>
      <4>1. /\ IsNumber(headers'[Len(headers')].value)
            /\ expectedContentLength' = stoul(headers'[Len(headers')].value)
        BY <1>7, <2>1, <3>1 DEF Taken, ends_length, back
      <4>2. /\ Len(headers') \in LengthHeaders'
            /\ \A j \in LengthHeaders' : j <= Len(headers')
        BY <1>state, <2>1, <3>1 DEF LengthHeaders, back
      <4> QED
        BY <4>1, <4>2 DEF DeclaredBy
    <3>2. CASE back.name # <<CL>>
      <4>1. expectedContentLength' = expectedContentLength /\ DeclaredBy(LengthHeaders)
        BY <1>7, <1>state, <3>2 DEF Taken, ends_length, IInv, LengthFollows
      <4> QED
        BY <2>1, <4>1 DEF DeclaredBy, LengthHeaders
    <3> QED
      BY <3>1, <3>2
  <2> QED
    BY <1>7, <1>state, <2>2 DEF LengthFollows
<1> QED
  BY <1>state, <1>1, <1>2, <1>3, <1>4, <1>5, <1>6, <1>7, TableRows
     DEF Row, EndedStates, BodyStates

\* One more character at the end of the body.
LEMMA BodyGrows ==
  ASSUME NEW s \in Seq(Chars), NEW c \in Chars
  PROVE  /\ Append(s, c) \in Seq(Chars) /\ Len(Append(s, c)) = Len(s) + 1
         /\ Append(s, c) # <<>>
         /\ DOMAIN s = 1..Len(s) /\ DOMAIN Append(s, c) = 1..(Len(s) + 1)
         /\ \A i \in 1..Len(s) : Append(s, c)[i] = s[i]
         /\ Append(s, c)[Len(s) + 1] = c
  OBVIOUS

\* A carriage return only opens a line end, and a line feed only closes one.
LEMMA PairsGrow ==
  ASSUME IInv, NEW c \in Chars, jsonData' = Append(jsonData, c), result # "true",
         c = LF <=> state_ = "body_content_expect_newline",
         state_ = "body_content_expect_newline" => jsonData # <<>>
  PROVE  LinesPaired'
<1>1. jsonData \in Seq(Chars) /\ LinesPaired
  BY DEF IInv, TypeOK
<1>2. PICK d : d = Append(jsonData, c)
  OBVIOUS
<1>3. /\ Len(d) = Len(jsonData) + 1 /\ DOMAIN d = 1..(Len(jsonData) + 1)
      /\ DOMAIN jsonData = 1..Len(jsonData) /\ Len(jsonData) \in Nat
      /\ \A i \in 1..Len(jsonData) : d[i] = jsonData[i]
      /\ d[Len(jsonData) + 1] = c
  BY <1>1, <1>2, BodyGrows
<1>4. jsonData # <<>> => Len(jsonData) > 0
  BY <1>1
<1>5. ASSUME NEW i \in DOMAIN d
      PROVE  /\ d[i] = LF => i > 1 /\ d[i - 1] = CR
             /\ d[i] = CR /\ i < Len(d) => d[i + 1] = LF
  <2>1. CASE i = Len(jsonData) + 1
    <3>1. LineEnds
      BY DEF IInv
    <3>2. c = LF => Len(jsonData) > 0 /\ jsonData[Len(jsonData)] = CR
      BY <1>4, <3>1 DEF LineEnds
    <3> QED
      BY <1>3, <2>1, <3>2
  <2>2. CASE i = Len(jsonData)
    <3>0. LineEnds
      BY DEF IInv
    <3>1. jsonData[i] = CR => c = LF
      BY <1>3, <1>5, <2>2, <3>0 DEF LineEnds
    <3>2. jsonData[i] = LF => i > 1 /\ jsonData[i - 1] = CR
      <4>1. i \in DOMAIN jsonData
        BY <1>3, <1>5, <2>2
      <4> QED
        BY <1>1, <4>1 DEF LinesPaired
    <3>3. /\ d[i] = jsonData[i] /\ d[i + 1] = c
          /\ i > 1 => d[i - 1] = jsonData[i - 1]
      BY <1>3, <1>5, <2>2
    <3> QED
      BY <3>1, <3>2, <3>3
  <2>3. CASE i < Len(jsonData)
    <3>1. /\ jsonData[i] = LF => i > 1 /\ jsonData[i - 1] = CR
          /\ jsonData[i] = CR => jsonData[i + 1] = LF
      BY <1>1, <1>3, <1>5, <2>3 DEF LinesPaired
    <3> QED
      BY <1>3, <1>5, <2>3, <3>1
  <2> QED
    BY <1>3, <1>5, <2>1, <2>2, <2>3
<1> QED
  BY <1>2, <1>5 DEF LinesPaired

\* A character that consume takes is counted when it is of the body, and only then.
LEMMA TakenBody ==
  ASSUME IInv, NEW r, NEW c, Taken(r, c)
  PROVE  BodyCounted' /\ BodyFramed' /\ LineEnds' /\ LinesPaired'
<1>state. /\ r \in Table /\ state_ = r.from /\ state_' = r.to /\ c \in r.on
          /\ c \in Chars /\ jsonData \in Seq(Chars)
          /\ result = "indeterminate" /\ result' # "true" /\ ~completes(c)
  BY TakenHeaders DEF Taken, IInv, TypeOK
<1>0. BodyFramed'
  BY <1>state DEF BodyFramed
<1>1. CASE r.from \notin BodyStates /\ r.to \notin BodyStates
  <2>1. jsonData = <<>> /\ UNCHANGED <<jsonData, contentCtr>>
    BY <1>1, <1>state DEF Taken, store, IInv, BodyCounted
  <2>2. contentCtr' = Len(jsonData')
    BY <2>1 DEF IInv, BodyCounted
  <2> QED
    BY <1>0, <1>1, <1>state, <2>1, <2>2 DEF BodyCounted, LineEnds, LinesPaired, BodyStates
<1>2. CASE r.from = "expecting_newline_3" /\ r.to = "body_content_normal"
  <2>1. jsonData = <<>> /\ UNCHANGED <<jsonData, contentCtr, expectedContentLength>>
    BY <1>2, <1>state DEF Taken, store, ends_length, IInv, BodyCounted, BodyStates
  <2>2. expectedContentLength > 0
    <3>1. c = LF
      BY <1>2, <1>state, TableRows DEF Row, LineStates, LF
    <3> QED
      BY <1>2, <1>state, <3>1 DEF completes, IInv, TypeOK
  <2>3. contentCtr' = Len(jsonData')
    BY <2>1 DEF IInv, BodyCounted
  <2> QED
    BY <1>0, <1>2, <1>state, <2>1, <2>2, <2>3
       DEF BodyCounted, LineEnds, LinesPaired, BodyStates
<1>3. ASSUME r.from \in BodyStates
      PROVE  BodyCounted' /\ LineEnds' /\ LinesPaired'
  <2>1. /\ jsonData' = Append(jsonData, c) /\ contentCtr' = contentCtr + 1
        /\ UNCHANGED expectedContentLength
    BY <1>3 DEF Taken, store, ends_length, BodyStates
  <2>2. /\ r.to \in BodyStates
        /\ c = LF <=> state_ = "body_content_expect_newline"
        /\ c = CR <=> r.to = "body_content_expect_newline"
    BY <1>3, <1>state, TableRows
       DEF Row, LineStates, BodyStates, Printable, Ctl, CR, LF
  <2>3. state_ = "body_content_expect_newline" => jsonData # <<>>
    BY <1>state DEF IInv, LineEnds
  <2>4. LinesPaired'
    BY <1>state, <2>1, <2>2, <2>3, PairsGrow
  <2>5. LineEnds'
    BY <1>state, <2>1, <2>2, BodyGrows DEF LineEnds
  <2>6. BodyCounted'
    <3>1. contentCtr = Len(jsonData) /\ expectedContentLength > 0
      BY <1>3, <1>state DEF IInv, BodyCounted
    <3>2. c = LF => contentCtr + 1 < expectedContentLength
      BY <1>state, <2>2 DEF completes, IInv, TypeOK
    <3>3. \A i \in DOMAIN jsonData : jsonData[i] = LF => i < expectedContentLength
      BY <1>state DEF IInv, BodyCounted
    <3>4. \A i \in DOMAIN jsonData' : jsonData'[i] = LF => i < expectedContentLength
      BY <1>state, <2>1, <3>1, <3>2, <3>3, BodyGrows
    <3> QED
      BY <1>state, <2>1, <2>2, <3>1, <3>4, BodyGrows DEF BodyCounted
  <2> QED
    BY <2>4, <2>5, <2>6
<1> QED
  BY <1>state, <1>0, <1>1, <1>2, <1>3, TableRows DEF Row, LineStates, BodyStates

\* The line feed that completes the request, whether it has a body or not.
LEMMA Completed ==
  ASSUME IInv, NEW c, result = "indeterminate", completes(c), result' = "true",
         jsonData' = IF state_ \in BodyStates THEN Append(jsonData, c) ELSE jsonData,
         contentCtr' = IF state_ \in BodyStates THEN contentCtr + 1 ELSE contentCtr,
         UNCHANGED <<state_, expectedContentLength, uri, headers>>
  PROVE  IInv'
<1>1. c = LF /\ c \in Chars /\ jsonData \in Seq(Chars)
  BY DEF completes, Chars, Ctl, IInv, TypeOK
<1>2. TypeOK'
  <2>1. States' = States
    BY DEF States, Table, HeaderLines, Continuation
  <2>2. jsonData' \in Seq(Chars) /\ contentCtr' \in Nat
    BY <1>1, AppendProperties DEF IInv, TypeOK
  <2> QED
    BY <2>1, <2>2 DEF IInv, TypeOK, Results
<1>3. HeadersBegin' /\ LengthFollows'
  BY DEF IInv, HeadersBegin, LengthFollows, DeclaredBy, LengthHeaders, back
<1>4. LineEnds'
  BY DEF LineEnds
<1>5. CASE state_ = "expecting_newline_3" /\ expectedContentLength = 0
  <2>1. jsonData' = <<>> /\ contentCtr' = Len(jsonData')
    BY <1>5 DEF IInv, BodyCounted, BodyStates
  <2> QED
    BY <1>2, <1>3, <1>4, <1>5, <2>1
       DEF IInv, BodyCounted, BodyFramed, LinesPaired, BodyStates
<1>6. CASE /\ state_ = "body_content_expect_newline"
           /\ contentCtr + 1 >= expectedContentLength
  <2>1. /\ contentCtr = Len(jsonData) /\ expectedContentLength > 0
        /\ jsonData' = Append(jsonData, c) /\ contentCtr' = contentCtr + 1
        /\ \A i \in DOMAIN jsonData : jsonData[i] = LF => i < expectedContentLength
    BY <1>6 DEF IInv, BodyCounted, BodyStates
  <2>2. jsonData # <<>>
    BY <1>6 DEF IInv, LineEnds
  <2>3. LinesPaired'
    BY <1>1, <1>6, <2>1, <2>2, PairsGrow
  <2>4. BodyCounted'
    BY <1>1, <1>6, <2>1, BodyGrows DEF BodyCounted, BodyStates
  <2>5. BodyFramed'
    <3>1. /\ Len(jsonData') = Len(jsonData) + 1 /\ Len(jsonData) \in Nat
          /\ jsonData'[Len(jsonData')] = LF
          /\ \A i \in 1..(Len(jsonData') - 1) :
               i \in DOMAIN jsonData /\ jsonData'[i] = jsonData[i]
      BY <1>1, <2>1, BodyGrows
    <3>2. Len(jsonData') >= expectedContentLength
      BY <1>6, <2>1, <3>1 DEF IInv, TypeOK
    <3>3. \A i \in 1..(Len(jsonData') - 1) : jsonData'[i] = LF => i < expectedContentLength
      BY <2>1, <3>1
    <3> QED
      BY <2>1, <3>1, <3>2, <3>3 DEF BodyFramed
  <2> QED
    BY <1>2, <1>3, <1>4, <2>3, <2>4, <2>5 DEF IInv
<1> QED
  BY <1>5, <1>6 DEF completes

\* Whatever character comes, in whatever state, the invariant holds after it.
LEMMA Consumed ==
  ASSUME IInv, NEW c, consume(c)
  PROVE  IInv'
<1>1. CASE completes(c)
  BY <1>1, Completed DEF consume
<1>2. ASSUME NEW r, Taken(r, c)
      PROVE  IInv'
  BY <1>2, TakenTypes, TakenBegins, TakenLength, TakenBody DEF IInv
<1>3. CASE result' = "false" /\ result = "indeterminate" /\
           UNCHANGED <<state_, expectedContentLength, contentCtr, request>>
  <2>1. UNCHANGED <<uri, headers, jsonData>>
    BY <1>3 DEF request
  <2>2. States' = States
    BY <2>1 DEF States, Table, HeaderLines, Continuation
  <2>3. TypeOK'
    BY <1>3, <2>1, <2>2 DEF IInv, TypeOK, Results
  <2>4. HeadersBegin' /\ LengthFollows'
    BY <1>3, <2>1 DEF IInv, HeadersBegin, LengthFollows, DeclaredBy, LengthHeaders, back
  <2>5. BodyCounted' /\ BodyFramed' /\ LineEnds' /\ LinesPaired'
    BY <1>3, <2>1 DEF IInv, BodyCounted, BodyFramed, LineEnds, LinesPaired
  <2> QED
    BY <2>3, <2>4, <2>5 DEF IInv
<1> QED
  BY <1>1, <1>2, <1>3 DEF consume, Taken

\* The invariant speaks of the parser and its request only: what else moves leaves it.
LEMMA Unconsumed ==
  ASSUME IInv, UNCHANGED vars
  PROVE  IInv'
<1>1. UNCHANGED <<state_, expectedContentLength, contentCtr, uri, headers, jsonData, result>>
  BY DEF vars, request
<1>2. TypeOK'
  <2>1. States' = States
    BY <1>1 DEF States, Table, HeaderLines, Continuation
  <2> QED
    BY <1>1, <2>1 DEF IInv, TypeOK
<1>3. HeadersBegin' /\ LengthFollows'
  BY <1>1 DEF IInv, HeadersBegin, LengthFollows, DeclaredBy, LengthHeaders, back
<1>4. BodyCounted' /\ BodyFramed' /\ LineEnds' /\ LinesPaired'
  BY <1>1 DEF IInv, BodyCounted, BodyFramed, LineEnds, LinesPaired
<1> QED
  BY <1>2, <1>3, <1>4 DEF IInv

\* The parser starts at the request line of an empty request.
LEMMA Starts == Init => IInv
<1> SUFFICES ASSUME Init
             PROVE  IInv
  OBVIOUS
<1>1. TypeOK
  BY TableStates, BoundsAssumption DEF Init, TypeOK, Results, LineStates
<1>2. HeadersBegin /\ LengthFollows
  BY DEF Init, HeadersBegin, LengthFollows, LineStates, OpenStates, EndedStates, BodyStates
<1>3. BodyCounted /\ BodyFramed /\ LineEnds /\ LinesPaired
  BY DEF Init, BodyCounted, BodyFramed, LineEnds, LinesPaired, BodyStates
<1> QED
  BY <1>1, <1>2, <1>3 DEF IInv

-----------------------------------------------------------------------------
\* The parser on its own, fed any characters.
THEOREM Invariance == Spec => []IInv
<1>1. IInv /\ [Next]_vars => IInv'
  BY Consumed, Unconsumed DEF Next
<1> QED
  BY <1>1, Starts, PTL DEF Spec

\* The parser in a connection: however the requests are cut, whatever they are.
THEOREM FramingInvariance == FSpec => []IInv
<1>1. FInit => IInv
  BY Starts DEF FInit
<1>2. IInv /\ [FNext]_<<framingVars, vars>> => IInv'
  BY Consumed, Unconsumed DEF FNext, peer_sends, read_some, parse, parse_anything, Next
<1> QED
  BY <1>1, <1>2, PTL DEF FSpec

\* Every variable of the parser keeps its type; in particular the length that stoul
\* returns fits in a size_t.
THEOREM TypeCorrect == (Spec => []TypeOK) /\ (FSpec => []TypeOK)
<1>1. IInv => TypeOK
  BY DEF IInv
<1> QED
  BY <1>1, Invariance, FramingInvariance, PTL

\* headers.back() is never evaluated on an empty vector (request_parser.cpp:208-271).
THEOREM HeaderOpenAlways == (Spec => []HeaderOpen) /\ (FSpec => []HeaderOpen)
<1>1. IInv => HeaderOpen
  BY DEF IInv, HeadersBegin, HeaderOpen, OpenStates
<1> QED
  BY <1>1, Invariance, FramingInvariance, PTL

\* What frames the body is the value of the last Content-Length header, with all of
\* its continuation lines, for every sequence of headers
\* (request_parser.cpp:253-262, 282-294).
THEOREM LengthAsDeclaredAlways ==
  (Spec => []LengthAsDeclared) /\ (FSpec => []LengthAsDeclared)
<1>1. IInv => LengthAsDeclared
  <2> SUFFICES ASSUME IInv, state_ = "expecting_newline_3" \/ state_ \in BodyStates
               PROVE  IF LengthHeaders = {}
                      THEN expectedContentLength = 0
                      ELSE LET last == CHOOSE i \in LengthHeaders :
                                         \A j \in LengthHeaders : j <= i
                           IN /\ IsNumber(headers[last].value)
                              /\ expectedContentLength = stoul(headers[last].value)
    BY DEF LengthAsDeclared
  <2>1. DeclaredBy(LengthHeaders)
    BY DEF IInv, LengthFollows, EndedStates, BodyStates
  <2>2. CASE LengthHeaders # {}
    <3>1. PICK i \in LengthHeaders :
            /\ \A j \in LengthHeaders : j <= i
            /\ IsNumber(headers[i].value)
            /\ expectedContentLength = stoul(headers[i].value)
      BY <2>1, <2>2 DEF DeclaredBy
    <3>2. LengthHeaders \subseteq Nat
      BY DEF LengthHeaders, IInv, TypeOK
    <3>3. i = CHOOSE k \in LengthHeaders : \A j \in LengthHeaders : j <= k
      <4>1. \A k \in LengthHeaders : (\A j \in LengthHeaders : j <= k) => k = i
        BY <3>1, <3>2
      <4> QED
        BY <3>1, <4>1
    <3> QED
      BY <2>2, <3>1, <3>3
  <2> QED
    BY <2>1, <2>2 DEF DeclaredBy
<1> QED
  BY <1>1, Invariance, FramingInvariance, PTL

\* A complete request ends at the first line end at or after its length, for every
\* body (request_parser.cpp:282-330).
THEOREM BodyFramedAlways == (Spec => []BodyFramed) /\ (FSpec => []BodyFramed)
<1>1. IInv => BodyFramed
  BY DEF IInv
<1> QED
  BY <1>1, Invariance, FramingInvariance, PTL

\* Line feeds of the body come after carriage returns, which nothing else follows, so
\* retrieveImages can rely on CR LF (request_parser.cpp:298-330).
THEOREM LinesPairedAlways == (Spec => []LinesPaired) /\ (FSpec => []LinesPaired)
<1>1. IInv => LinesPaired
  BY DEF IInv
<1> QED
  BY <1>1, Invariance, FramingInvariance, PTL
=============================================================================
