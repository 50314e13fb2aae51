------------------------------- MODULE Reply -------------------------------
(***************************************************************************)
(* http::server::reply: a status, headers and content, and the text they   *)
(* are sent as.  The text is a sequence of tokens, tuples that begin with  *)
(* a string; a size is a number of tokens.                                 *)
(***************************************************************************)
EXTENDS Naturals, Sequences, SequencesExt

ok == 200
bad_request == 400
internal_server_error == 500
Statuses == {ok, 201, 202, 204, 300, 301, 302, 304, bad_request, 401, 403, 404,
             internal_server_error, 501, 502, 503}

crlf == <<"CRLF">>
Number(n) == <<"number", n>>

\* status_strings::to_buffer
status_line(status) ==
  <<"HTTP/1.0", IF status \in Statuses THEN status ELSE internal_server_error>>

\* stock_replies::to_string: the page of a status; there is none for ok.
page(status) ==
  IF status = ok THEN <<>>
  ELSE <<<<"html", IF status \in Statuses THEN status ELSE internal_server_error>>>>

\* mime_types::extension_to_type
extension_to_type(extension) ==
  LET mappings == [gif |-> "image/gif", htm |-> "text/html", html |-> "text/html",
                   jpg |-> "image/jpeg", png |-> "image/png", json |-> "application/json"]
  IN IF extension \in DOMAIN mappings THEN mappings[extension] ELSE "text/plain"

Field(name, value) == [name |-> <<name>>, value |-> value]

\* The two headers every reply has.
headers_for(content, type) ==
  <<Field("Content-Length", Number(Len(content))), Field("Content-Type", <<type>>)>>

\* reply::stock_reply
stock_reply(status) ==
  [status |-> status, headers |-> headers_for(page(status), "text/html"),
   content |-> page(status)]

\* The end of handle_request, for both of its routes: rep was empty before.
make_reply(content) ==
  [status |-> ok, headers |-> headers_for(content, extension_to_type("json")),
   content |-> content]

\* reply::to_buffers.  The first line ends with its own CR LF.
to_buffers(rep) ==
  <<status_line(rep.status), crlf>>
  \o FlattenSeq([i \in DOMAIN rep.headers |->
       <<rep.headers[i].name, <<": ">>, rep.headers[i].value, crlf>>])
  \o <<crlf>>
  \o rep.content
=============================================================================
