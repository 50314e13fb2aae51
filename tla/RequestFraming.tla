--------------------------- MODULE RequestFraming ---------------------------
(***************************************************************************)
(* A peer that sends one whole request, the connection that reads it in    *)
(* pieces, and the parser: where TCP cuts the request must not matter, and *)
(* the peer and the server must agree on where it ends, since each waits   *)
(* for the other after that.  Or a peer that sends any character at any    *)
(* time: for it there is nothing to add to RequestParser.                  *)
(***************************************************************************)
EXTENDS RequestParser

CONSTANTS
  Requests,    \* the requests a peer may send
  Anything,    \* stands for those of a peer that keeps to no form
  BufferSize   \* the size of connection::buffer_

ASSUME BufferAssumption == BufferSize \in Nat \ {0} /\ Anything \notin Requests

\* The client's requests: names and values that keep to the grammar, a Content-Length
\* that is the length of the body, and no body without one; CR LF at the ends of
\* lines and nowhere else.
Messages ==
  [uri : Seq(Printable \ {SP}),
   headers : Seq([name : Seq(Token) \ {<<>>}, value : Seq(Printable)]),
   body : Seq(Printable \cup {CR, LF})]

LengthsOf(m) == {i \in DOMAIN m.headers : m.headers[i].name = <<CL>>}

SaysItsLength(m) ==
  /\ LengthsOf(m) = {} => m.body = <<>>
  /\ \A i \in LengthsOf(m) :
       IsNumber(m.headers[i].value) /\ stoul(m.headers[i].value) = Len(m.body)

BodyInLines(m) ==
  \A i \in DOMAIN m.body :
    /\ m.body[i] = LF => i > 1 /\ m.body[i - 1] = CR
    /\ m.body[i] = CR => i < Len(m.body) /\ m.body[i + 1] = LF

ASSUME RequestsAssumption ==
  \A m \in Requests : m \in Messages /\ SaysItsLength(m) /\ BodyInLines(m)

VARIABLES
  message,  \* what the peer sends
  unsent,   \* the rest of it, not yet handed to the network
  network,  \* sent, not yet read by the server
  buffer_   \* read by the server, not yet parsed

framingVars == <<message, unsent, network, buffer_>>

(***************************************************************************)
(* The bytes of a request, as Client::Impl::sendRequest puts them in its   *)
(* streambuf: request line, headers, an empty line, and the body.          *)
(***************************************************************************)
line(header) == header.name \o <<":", SP>> \o header.value \o <<CR, LF>>

\* From the i-th header on; after the last, from the empty line on.
headersFrom(m) ==
  LET text[i \in 1..Len(m.headers) + 1] ==
        IF i > Len(m.headers) THEN <<CR, LF>> \o m.body
        ELSE line(m.headers[i]) \o text[i + 1]
  IN text

Version == <<SP, "H", "T", "T", "P", "/", "1", ".", "0", CR, LF>>

render(m) ==
  <<"P", SP>> \o m.uri \o Version \o headersFrom(m)[1]

FInit ==
  /\ Init
  /\ message \in Requests \cup {Anything}
  /\ unsent = IF message = Anything THEN <<>> ELSE render(message)
  /\ network = <<>>
  /\ buffer_ = <<>>

\* boost::asio::write: any number of bytes at a time.
peer_sends ==
  /\ \E n \in 1..Len(unsent) :
       /\ network' = network \o SubSeq(unsent, 1, n)
       /\ unsent' = SubSeq(unsent, n + 1, Len(unsent))
  /\ UNCHANGED <<message, buffer_, vars>>

\* Mutant: the next read starts before the buffer is parsed.
read_some_over ==
  /\ result = "indeterminate"
  /\ \E n \in 1..Len(network) :
       /\ n <= BufferSize
       /\ buffer_' = SubSeq(network, 1, n)
       /\ network' = SubSeq(network, n + 1, Len(network))
  /\ UNCHANGED <<message, unsent, vars>>

\* async_read_some returns what there is, or a part of it, up to its buffer.
\* It is only started again when the parser wants more.
read_some ==
  /\ buffer_ = <<>>
  /\ result = "indeterminate"
  /\ \E n \in 1..Len(network) :
       /\ n <= BufferSize
       /\ buffer_' = SubSeq(network, 1, n)
       /\ network' = SubSeq(network, n + 1, Len(network))
  /\ UNCHANGED <<message, unsent, vars>>

\* One turn of the loop in request_parser::parse, which ends with the buffer or
\* with a result.
parse ==
  /\ buffer_ # <<>>
  /\ consume(Head(buffer_))
  /\ buffer_' = Tail(buffer_)
  /\ UNCHANGED <<message, unsent, network>>

\* Where the characters of the other peer are cut changes nothing: the parser keeps
\* all of its state between two of them.
parse_anything ==
  /\ message = Anything
  /\ Next
  /\ UNCHANGED framingVars

FNext == peer_sends \/ read_some \/ parse \/ parse_anything

FSpec ==
  /\ FInit /\ [][FNext]_<<framingVars, vars>>
  /\ WF_<<framingVars, vars>>(peer_sends)
  /\ WF_<<framingVars, vars>>(read_some)
  /\ WF_<<framingVars, vars>>(parse)
-----------------------------------------------------------------------------
\* However the request was cut, the server answers with the request that was
\* sent in its hands, and with nothing of it left unread, which would make
\* closing the socket reset the connection (connection.cpp:55-66).
ParsedAsSent ==
  message # Anything /\ result # "indeterminate" =>
    /\ result = "true"
    /\ unsent = <<>> /\ network = <<>> /\ buffer_ = <<>>
    /\ uri = message.uri
    /\ headers = message.headers
    /\ jsonData = message.body

\* The server does answer: nobody waits for a byte that is never sent
\* (request_parser.cpp:282-326).
Answered == message # Anything => <>(result # "indeterminate")
=============================================================================
