--------------------------- MODULE RequestParser ---------------------------
(***************************************************************************)
(* http::server::request_parser: the machine that request_parser::parse    *)
(* drives one character at a time, with the body states this repository    *)
(* added to it.  A character is a member of a small alphabet with the four *)
(* classes the code tests; the name "Content-Length" counts as one letter, *)
(* because the code only asks whether a header name is exactly that.       *)
(*                                                                         *)
(* Left out: req.method and the version numbers, which nothing reads, and  *)
(* the members contentLength and reset(), which nothing uses.              *)
(***************************************************************************)
EXTENDS Integers, Sequences, SequencesExt

CONSTANTS
  Letter,      \* characters without a role of their own in the grammar
  Input,       \* the characters the peer of a run may send
  Kept,        \* bound: those of them that may end up in the uri and the headers
  KeptBody,    \* bound: those that may end up in the body
  SizeMax,     \* the largest value of std::size_t
  MaxUri, MaxHeaders, MaxName, MaxValue, MaxBody   \* bounds on what is stored

CR == "CR"
LF == "LF"
SP == "SP"
HT == "HT"
CL == "Content-Length"

Digit    == {"0", "1", "2", "3", "4", "5", "6", "7", "8", "9"}
Ctl      == {CR, LF, HT, "ctl"}                 \* is_ctl
Tspecial == {SP, HT, ":", "/", ";"}             \* is_tspecial
High     == {"high"}                            \* not is_char
Chars    == Ctl \cup Tspecial \cup High \cup Digit \cup Letter

Token     == Chars \ (Ctl \cup Tspecial \cup High)
Printable == Chars \ Ctl
Blank     == {SP, HT}

ASSUME AlphabetAssumption ==
  /\ {"H", "T", "P", ".", "+", "-", CL} \subseteq Letter
  /\ Letter \cap (Ctl \cup Tspecial \cup High \cup Digit) = {}
  /\ Kept \cup KeptBody \subseteq Input /\ Input \subseteq Chars

ASSUME BoundsAssumption ==
  /\ {SizeMax, MaxUri, MaxHeaders, MaxName, MaxValue, MaxBody} \subseteq Nat
  /\ MaxName > 0 /\ MaxHeaders > 0

VARIABLES
  state_,                 \* request_parser::state_
  expectedContentLength,  \* from the Content-Length header; 0 when there is none
  contentCtr,             \* characters of the body so far
  uri, headers, jsonData, \* the members of request
  result                  \* what consume returned last, or "threw"

request == <<uri, headers, jsonData>>
vars == <<state_, expectedContentLength, contentCtr, request, result>>

Results == {"indeterminate", "true", "false", "threw"}

HeaderType == [name : Seq(Chars), value : Seq(Chars)]

-----------------------------------------------------------------------------
(***************************************************************************)
(* std::stoul(value): blanks, a sign, then as many digits as follow.  It   *)
(* throws when there is no digit and when the number does not fit.  A      *)
(* minus sign negates modulo the width.                                    *)
(***************************************************************************)
\* The longest prefix of s with characters of S only, and what follows it.
Span(s, S) ==
  LET i == SelectInSeq(s, LAMBDA c : c \notin S)
  IN IF i = 0 THEN s ELSE SubSeq(s, 1, i - 1)
After(s, S) == SubSeq(s, Len(Span(s, S)) + 1, Len(s))

digitValue(c) ==
  CHOOSE n \in 0..9 : <<"0", "1", "2", "3", "4", "5", "6", "7", "8", "9">>[n + 1] = c

number(digits) ==
  LET n[i \in 0..Len(digits)] ==
        IF i = 0 THEN 0 ELSE 10 * n[i - 1] + digitValue(digits[i])
  IN n[Len(digits)]

DigitsOf(value) ==
  LET v == After(value, {SP})
  IN Span(IF v # <<>> /\ v[1] \in {"+", "-"} THEN Tail(v) ELSE v, Digit)

IsNumber(value) ==
  DigitsOf(value) # <<>> /\ number(DigitsOf(value)) \in 0..SizeMax

Negated(value) == LET v == After(value, {SP}) IN v # <<>> /\ v[1] = "-"

\* Mutant: a signed result.
stoul_signed(value) ==
  LET n == number(DigitsOf(value)) IN IF Negated(value) THEN -n ELSE n

stoul(value) ==
  LET n == number(DigitsOf(value))
  IN IF Negated(value) /\ n # 0 THEN SizeMax + 1 - n ELSE n

-----------------------------------------------------------------------------
(***************************************************************************)
(* The switch of consume as a table: in state `from' a character of `on'   *)
(* leads to state `to'.  A character for which there is no row is refused. *)
(***************************************************************************)
Row(from, on, to) == [from |-> from, on |-> on, to |-> to]

RequestLine == {
  Row("method_start", Token, "method"),
  Row("method", {SP}, "uri"),
  Row("method", Token, "method"),
  Row("uri", {SP}, "http_version_h"),
  Row("uri", Printable \ {SP}, "uri"),
  Row("http_version_h", {"H"}, "http_version_t_1"),
  Row("http_version_t_1", {"T"}, "http_version_t_2"),
  Row("http_version_t_2", {"T"}, "http_version_p"),
  Row("http_version_p", {"P"}, "http_version_slash"),
  Row("http_version_slash", {"/"}, "http_version_major_start"),
  Row("http_version_major_start", Digit, "http_version_major"),
  Row("http_version_major", {"."}, "http_version_minor_start"),
  Row("http_version_major", Digit, "http_version_major"),
  Row("http_version_minor_start", Digit, "http_version_minor"),
  Row("http_version_minor", {CR}, "expecting_newline_1"),
  Row("http_version_minor", Digit, "http_version_minor"),
  Row("expecting_newline_1", {LF}, "header_line_start") }

\* A continuation line needs a header to continue.
Continuation_always == Blank                                 \* mutant
Continuation == IF headers = <<>> THEN {} ELSE Blank

HeaderLines == {
  Row("header_line_start", {CR}, "expecting_newline_3"),
  Row("header_line_start", Continuation, "header_lws"),
  Row("header_line_start", Token, "header_name"),
  Row("header_lws", {CR}, "expecting_newline_2"),
  Row("header_lws", Blank, "header_lws"),
  Row("header_lws", Printable \ Blank, "header_value"),
  Row("header_name", {":"}, "space_before_header_value"),
  Row("header_name", Token, "header_name"),
  Row("space_before_header_value", {SP}, "header_value"),
  Row("header_value", {CR}, "expecting_newline_2"),
  Row("header_value", Printable, "header_value"),
  Row("expecting_newline_2", {LF}, "header_line_start"),
  Row("expecting_newline_3", {LF}, "body_content_normal") }

BodyStates == {"body_content_normal", "body_content_expect_newline"}

\* Mutant: a line feed on its own is taken.
Body_lone == {
  Row("body_content_normal", {CR}, "body_content_expect_newline"),
  Row("body_content_normal", Printable \cup {LF}, "body_content_normal"),
  Row("body_content_expect_newline", {LF}, "body_content_normal") }

Body == {
  Row("body_content_normal", {CR}, "body_content_expect_newline"),
  Row("body_content_normal", Printable, "body_content_normal"),
  Row("body_content_expect_newline", {LF}, "body_content_normal") }

Table == RequestLine \cup HeaderLines \cup Body

States == {r.from : r \in Table}

\* Mutants: the line feed is counted twice, or the comparison is strict.
completes_short(c) ==
  /\ c = LF
  /\ \/ state_ = "expecting_newline_3" /\ expectedContentLength = 0
     \/ /\ state_ = "body_content_expect_newline"
        /\ contentCtr + 2 >= expectedContentLength
completes_late(c) ==
  /\ c = LF
  /\ \/ state_ = "expecting_newline_3" /\ expectedContentLength = 0
     \/ /\ state_ = "body_content_expect_newline"
        /\ contentCtr + 1 > expectedContentLength

\* consume returns true: a line feed that ends the headers of a request without
\* a body, or that ends a line of the body once enough of it has been read.
completes(c) ==
  /\ c = LF
  /\ \/ state_ = "expecting_newline_3" /\ expectedContentLength = 0
     \/ /\ state_ = "body_content_expect_newline"
        /\ contentCtr + 1 >= expectedContentLength

-----------------------------------------------------------------------------
\* headers.back()
back == headers[Len(headers)]

\* What taking the row r on character c stores in the request.
store(r, c) ==
  /\ uri' = IF r.from = "uri" /\ r.to = "uri" THEN Append(uri, c) ELSE uri
  /\ headers' =
       IF r.from = "header_line_start" /\ r.to = "header_name"
       THEN Append(headers, [name |-> <<c>>, value |-> <<>>])
       ELSE IF r.from = "header_name" /\ r.to = "header_name"
       THEN [headers EXCEPT ![Len(headers)].name = Append(@, c)]
       ELSE IF r.from \in {"header_lws", "header_value"} /\ r.to = "header_value"
       THEN [headers EXCEPT ![Len(headers)].value = Append(@, c)]
       ELSE headers
  /\ jsonData' = IF r.from \in BodyStates THEN Append(jsonData, c) ELSE jsonData
  /\ contentCtr' = IF r.from \in BodyStates THEN contentCtr + 1 ELSE contentCtr

\* Mutant: only the first line that carries a length counts.
ends_length_once(r) ==
  /\ r.from = "header_value" /\ r.to = "expecting_newline_2" /\ back.name = <<CL>>
  /\ expectedContentLength = 0

\* The end of the line that carries the value of a Content-Length header.
ends_length(r) == r.from = "header_value" /\ r.to = "expecting_newline_2" /\ back.name = <<CL>>

\* request_parser::consume
consume(c) ==
  /\ result = "indeterminate"
  /\ \/ /\ completes(c)
        /\ result' = "true"
        /\ jsonData' = IF state_ \in BodyStates THEN Append(jsonData, c) ELSE jsonData
        /\ contentCtr' = IF state_ \in BodyStates THEN contentCtr + 1 ELSE contentCtr
        /\ UNCHANGED <<state_, expectedContentLength, uri, headers>>
     \/ \E r \in Table :
          /\ ~completes(c)
          /\ r.from = state_ /\ c \in r.on
          /\ state_' = r.to
          /\ store(r, c)
          /\ \/ /\ ends_length(r) /\ IsNumber(back.value)
                /\ expectedContentLength' = stoul(back.value)
                /\ result' = "indeterminate"
             \/ /\ ends_length(r) /\ ~IsNumber(back.value)
                /\ result' = "threw"
                /\ UNCHANGED expectedContentLength
             \/ /\ ~ends_length(r)
                /\ result' = "indeterminate"
                /\ UNCHANGED expectedContentLength
     \/ /\ ~completes(c)
        /\ \A r \in Table : r.from = state_ => c \notin r.on
        /\ result' = "false"
        /\ UNCHANGED <<state_, expectedContentLength, contentCtr, request>>

\* request_parser::request_parser, and an empty request.
Init ==
  /\ state_ = "method_start"
  /\ expectedContentLength = 0
  /\ contentCtr = 0
  /\ uri = <<>> /\ headers = <<>> /\ jsonData = <<>>
  /\ result = "indeterminate"

Bounded(s, kept, max) == Len(s) <= max /\ \A i \in DOMAIN s : s[i] \in kept

WithinBounds ==
  /\ Bounded(uri, Kept, MaxUri)
  /\ Bounded(jsonData, KeptBody, MaxBody)
  /\ Len(headers) <= MaxHeaders
  /\ \A i \in DOMAIN headers :
       Bounded(headers[i].name, Kept, MaxName) /\ Bounded(headers[i].value, Kept, MaxValue)

\* The peer sends any character, as long as the parser asks for more.
Next == \E c \in Input : consume(c) /\ WithinBounds'

Spec == Init /\ [][Next]_vars
-----------------------------------------------------------------------------
TypeOK ==
  /\ state_ \in States
  /\ expectedContentLength \in 0..SizeMax
  /\ contentCtr \in Nat
  /\ uri \in Seq(Chars) /\ headers \in Seq(HeaderType) /\ jsonData \in Seq(Chars)
  /\ result \in Results

\* headers.back() is evaluated in these states only, and then there is a header:
\* on an empty vector it would be undefined (request_parser.cpp:208-271).
HeaderOpen ==
  state_ \in {"header_lws", "header_name", "space_before_header_value", "header_value"}
    => headers # <<>>

\* The indices of the headers that declare a length.
LengthHeaders == {i \in DOMAIN headers : headers[i].name = <<CL>>}

\* Once the header block is over, the length used to frame the body is the one
\* the last Content-Length header carries in full, also when its value was
\* continued on another line, and zero when no header does
\* (request_parser.cpp:253-262, 282-294).
LengthAsDeclared ==
  state_ = "expecting_newline_3" \/ state_ \in BodyStates =>
    IF LengthHeaders = {}
    THEN expectedContentLength = 0
    ELSE LET last == CHOOSE i \in LengthHeaders : \A j \in LengthHeaders : j <= i
         IN /\ IsNumber(headers[last].value)
            /\ expectedContentLength = stoul(headers[last].value)

\* A request is complete at the first line end at or after the declared length,
\* neither before nor later, and without a declared length it has no body
\* (request_parser.cpp:282-330).
BodyFramed ==
  result = "true" =>
    IF expectedContentLength = 0
    THEN jsonData = <<>>
    ELSE /\ Len(jsonData) >= expectedContentLength
         /\ jsonData[Len(jsonData)] = LF
         /\ \A i \in 1..(Len(jsonData) - 1) :
              jsonData[i] = LF => i < expectedContentLength

\* In the body a line feed only comes after a carriage return, and nothing else
\* does: retrieveImages can rely on CR LF (request_parser.cpp:298-330).
LinesPaired ==
  \A i \in DOMAIN jsonData :
    /\ jsonData[i] = LF => i > 1 /\ jsonData[i - 1] = CR
    /\ jsonData[i] = CR /\ i < Len(jsonData) => jsonData[i + 1] = LF
=============================================================================
