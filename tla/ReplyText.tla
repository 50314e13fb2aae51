----------------------------- MODULE ReplyText -----------------------------
(***************************************************************************)
(* handle_request as text, from the request to the reply: RequestText up   *)
(* to the images, then base64_decode and run() for one image after the     *)
(* other, combineJsonResults, and the reply as the client receives it.     *)
(*                                                                         *)
(* A json text is a sequence of tokens like a reply.  What it says of an   *)
(* image is one token, the member; braces and line feeds are tokens of     *)
(* their own, as combineJsonResults counts them.                           *)
(***************************************************************************)
EXTENDS RequestText, Reply

CONSTANTS
  Blank,    \* contents for which run() returns "": no image, or no person in it
  Records   \* the json texts in the database

VARIABLES
  imageName,  \* the image at hand, or <<>>
  results,    \* what run() returned so far, with the image it was for
  rep         \* the reply, <<>> until it is filled

replyVars == <<imageName, results, rep>>
vars == <<textVars, stage, decodeVars, base64Vars, replyVars>>

LineFeed == <<"LF">>
Member(name, contents) == <<"member", name, contents>>

\* write_json: indented, with a line for each brace.
Json(members) == <<<<"{">>, LineFeed>> \o members \o <<<<"}">>, LineFeed>>

\* PersonPipeline::run, seen from here: the json of the image, or none.
run(contents, name) ==
  IF contents \in Blank THEN <<>> ELSE Json(<<Member(name, contents), LineFeed>>)

\* combineJsonResults: substr(2, length - 4) of every result.
Combinable == \A i \in DOMAIN results : Len(results[i].json) >= 2

combineJsonResults ==
  Json(FlattenSeq([i \in DOMAIN results |->
                     SubSeq(results[i].json, 3, Len(results[i].json) - 2)]))

-----------------------------------------------------------------------------
Init ==
  /\ TextInit
  /\ DecodeBase64Init
  /\ imageName = <<>> /\ results = <<>> /\ rep = <<>>

parse_request == read_request /\ UNCHANGED <<base64Vars, replyVars>>

reply_with(r) ==
  /\ rep' = r
  /\ stage' = "replied"
  /\ UNCHANGED <<textVars, decodeVars, base64Vars, imageName, results>>

throw ==
  /\ stage' = "threw"
  /\ UNCHANGED <<textVars, decodeVars, base64Vars, replyVars>>

\* Every refusal is the same stock reply.
reply_refused == stage = "refused" /\ reply_with(stock_reply(bad_request))

\* /history: the records, one after the other.
reply_history == stage = "history" /\ reply_with(make_reply(FlattenSeq(Records)))

\* The loop over the images, which come in any order.
Left == DOMAIN out \ {results[i].name : i \in DOMAIN results}

next_image ==
  /\ stage = "images"
  /\ \E f \in Left :
       /\ imageName' = f
       /\ base64_decode(out[f])
  /\ stage' = "decoding"
  /\ UNCHANGED <<textVars, decodeVars, results, rep>>

decode_image ==
  /\ stage = "decoding" /\ ~Decoded
  /\ \/ decode_throws /\ throw
     \/ /\ ~decode_throws
        /\ decode_group
        /\ UNCHANGED <<textVars, stage, decodeVars, replyVars>>

run_image ==
  /\ stage = "decoding" /\ Decoded
  /\ results' = Append(results, [name |-> imageName, json |-> run(bytes, imageName)])
  /\ stage' = "images"
  /\ UNCHANGED <<textVars, decodeVars, base64Vars, imageName, rep>>

reply_results ==
  /\ stage = "images" /\ Left = {}
  /\ \/ Combinable /\ reply_with(make_reply(combineJsonResults))
     \/ ~Combinable /\ throw

Next ==
  \/ parse_request
  \/ next_image \/ decode_image \/ run_image
  \/ reply_results \/ reply_refused \/ reply_history

Spec == Init /\ [][Next]_vars /\ WF_vars(Next)
-----------------------------------------------------------------------------
(***************************************************************************)
(* A reply as HTTP has its readers take it: headers up to the first empty  *)
(* line, then as much content as Content-Length says.                      *)
(***************************************************************************)
Text == to_buffers(rep)
Empty == find(Text, <<crlf, crlf>>, 1)
Declared == LET i == find(Text, <<<<"Content-Length">>, <<": ">>>>, 1) IN Text[i + 2]
Content == SubSeq(Text, Empty + 2, Len(Text))

Members(content) == SelectSeq(content, LAMBDA t : t[1] = "member")

\* From end to end: the reply to a request as the client forms it tells once of every
\* name a file has, with the bytes that were read from the last file of that name, and
\* of nothing else; it is framed by its Content-Length, and is only missing if there is
\* nothing to tell of one of them.  Files with names of their own are all told of; of
\* two with one name the first is dropped without a word (request_handler.cpp:82-120,
\* 237, reply.cpp:103-118).
RepliedAsSent ==
  LET files == request.files
      told == {files[i] : i \in Lasting(files)}
      members == Members(Content)
  IN /\ stage = "replied" => Empty # npos /\ Declared = Number(Len(Content))
     /\ request.intact /\ stage = "replied" =>
          /\ Text[1] = status_line(ok)
          /\ IsInjective(members)
          /\ {m[2] : m \in ToSet(members)} = {file.filename : file \in ToSet(files)}
          /\ ToSet(members) = {Member(file.filename, file.data) : file \in told}
     /\ request.intact /\ stage = "threw" => \E file \in told : file.data \in Blank

\* base64_decode indexes its text four characters at a time without a look at its
\* length: it never goes past the null character at the end, however long the text
\* is and wherever it has padding (base64.cpp:195-212).
InBounds ==
  stage = "decoding" /\ ~Decoded =>
    \A k \in LookedAt : pos + k <= Len(encoded_string) + 1

\* What base64_encode makes of the contents of a file, in either alphabet and however
\* many bytes they are, base64_decode takes turn by turn without throwing, and gives
\* back those bytes (base64.cpp:104-153, 155-217).
BytesAsEncoded ==
  \A i \in DOMAIN request.files, url \in BOOLEAN :
    LET data == request.files[i].data
    IN encoded_string = base64_encode(data, url) =>
         IF Decoded THEN bytes = data ELSE ~decode_throws

\* The loops end, whatever the request looks like: it is answered, or the handler
\* throws (request_handler.cpp:89-102, 155-186, 224-241).
Decided == <>(stage \in {"replied", "threw"})

\* "Server wraps inference results into human-readable json format" (README.md:29):
\* members in braces, with commas between them.
IsJson(text) ==
  LET t == SelectSeq(text, LAMBDA x : x # LineFeed)
  IN /\ Len(t) >= 2 /\ t[1] = <<"{">> /\ t[Len(t)] = <<"}">>
     /\ \A i \in 2..(Len(t) - 1) : IF i % 2 = 0 THEN t[i][1] = "member" ELSE t[i] = <<",">>

ReplyIsJson == stage = "replied" /\ rep.status = ok => IsJson(rep.content)
=============================================================================
