---------------------------- MODULE RequestForm ----------------------------
(***************************************************************************)
(* The text of a /predict request, as Client::Impl::sendRequest writes it: *)
(* the boundary in its Content-Type header, and a part for every file.     *)
(* The tokens it is made of are those the server searches for.             *)
(***************************************************************************)
EXTENDS Base64

CRLF == <<"CRLF">>
Dashes == <<"-", "-">>
Name == "boundary="      \* in a Content-Type header
Filename == "filename="  \* with the quote that opens the name
Quote == "quote"

\* Stands for 77580b83-390b-4c34-8393-4eac360c7b42.  It has dashes, and none of
\* the characters that would end it early.
ClientBoundary == <<"7", "-", "b">>

\* A file by its short name and its contents, and the text of the contents.
File(filename, data, url) ==
  [filename |-> filename, data |-> data, image |-> base64_encode(data, url)]

Part(b, f) ==
  Dashes \o b \o CRLF \o
  <<"Content-Disposition", Filename>> \o f.filename \o <<Quote>> \o CRLF \o
  <<"Content-Type">> \o CRLF \o CRLF \o f.image \o CRLF

Body(b, files) ==
  FlattenSeq([i \in DOMAIN files |-> Part(b, files[i])]) \o Dashes \o b \o Dashes \o CRLF

ContentType(b) == <<"multipart/form-data", ";", " ", Name>> \o b
=============================================================================
