------------------------------- MODULE Client -------------------------------
(***************************************************************************)
(* SISD::Client as main() uses it: form a request, test it, send it, take  *)
(* everything up to the end of the connection for the response.  Files may *)
(* come and go meanwhile, and the server may be killed.                    *)
(*                                                                         *)
(* The server appears as its end of the connection: it reads until it has  *)
(* the whole request, writes the reply and closes (see Server).  Request   *)
(* and reply take Pieces transfers each.                                   *)
(***************************************************************************)
EXTENDS Naturals, Sequences

CONSTANTS
  Paths,
  Asked,    \* what formRequest may be called with: records of type and paths
  Pieces,   \* bound: how many transfers a request or a reply takes
  Faults    \* what may go wrong outside: "files", "kill"

ASSUME ClientAssumption ==
  /\ Asked \subseteq [type : STRING, paths : Seq(Paths)]
  /\ Pieces \in Nat \ {0}
  /\ Faults \subseteq {"files", "kill"}

Person == "Person"
History == "History"

VARIABLES
  files,       \* what is at each path: "image", "directory" or "missing"
  asked,
  stage,       \* form, check, connect, open, write, read, end
  next,        \* the path looked at next
  body,        \* the files whose contents are in the request
  written,     \* pieces of the request given to the socket
  received,    \* pieces of the reply in the response
  outcome,     \* how main() ended: response, exit, crash (the null request)
               \* or terminate (an exception nobody catches)
  connection,  \* none, open, or as the client will find it: closed, reset
  running,     \* the server process is there
  taken,       \* pieces of the request the server has read
  replied      \* pieces of the reply the server has written

clientVars == <<asked, stage, next, body, written, received, outcome>>
serverVars == <<running, taken, replied>>
vars == <<files, clientVars, connection, serverVars>>

-----------------------------------------------------------------------------
Init ==
  /\ files \in [Paths -> {"image", "directory", "missing"}]
  /\ asked \in Asked
  /\ stage = "form"
  /\ next = 1 /\ body = <<>>
  /\ written = 0 /\ received = 0
  /\ outcome = "none"
  /\ connection = "none"
  /\ running \in IF "kill" \in Faults THEN BOOLEAN ELSE {TRUE}
  /\ taken = 0 /\ replied = 0

goto(where) == stage' = where

finish(how) ==
  /\ stage' = "end"
  /\ outcome' = how

\* Request() has no Impl, and `!req' in main() dereferences it.
invalid_request == finish("crash")

\* formRequest, up to the loop over the files.
formRequest ==
  /\ stage = "form"
  /\ \/ /\ asked.type = Person /\ asked.paths # <<>>
        /\ goto("check") /\ UNCHANGED outcome
     \/ /\ asked.type = History
        /\ goto("connect") /\ UNCHANGED outcome
     \/ /\ \/ asked.type \notin {Person, History}
           \/ asked.type = Person /\ asked.paths = <<>>
        /\ invalid_request
  /\ UNCHANGED <<files, asked, next, body, written, received, connection, serverVars>>

\* formRequest looks at one file; the first that is no regular file decides.
check_file ==
  /\ stage = "check"
  /\ \/ /\ next <= Len(asked.paths)
        /\ files[asked.paths[next]] = "image"
        /\ next' = next + 1
        /\ UNCHANGED <<stage, outcome>>
     \/ /\ next <= Len(asked.paths)
        /\ files[asked.paths[next]] # "image"
        /\ invalid_request /\ UNCHANGED next
     \/ /\ next > Len(asked.paths)
        /\ next' = 1
        /\ goto("connect") /\ UNCHANGED outcome
  /\ UNCHANGED <<files, asked, body, written, received, connection, serverVars>>

\* sendRequest connects before it looks at the files again.  An exception is
\* caught there, and the response is empty.
connect ==
  /\ stage = "connect"
  /\ \/ /\ running
        /\ connection' = "open"
        /\ goto(IF asked.type = Person THEN "open" ELSE "write")
        /\ UNCHANGED outcome
     \/ ~running /\ finish("response") /\ UNCHANGED connection
  /\ UNCHANGED <<files, asked, next, body, written, received, serverVars>>

\* Mutant: a file that cannot be opened is left out of the request.
open_file_skips ==
  /\ stage = "open"
  /\ \/ /\ next <= Len(asked.paths)
        /\ body' = IF files[asked.paths[next]] = "image"
                   THEN Append(body, asked.paths[next]) ELSE body
        /\ next' = next + 1
        /\ UNCHANGED <<stage, outcome>>
     \/ next > Len(asked.paths) /\ goto("write") /\ UNCHANGED <<next, body, outcome>>
  /\ UNCHANGED <<files, asked, written, received, connection, serverVars>>

\* sendRequest reads one file into the body; if it cannot, exit(0).
open_file ==
  /\ stage = "open"
  /\ \/ /\ next <= Len(asked.paths)
        /\ files[asked.paths[next]] = "image"
        /\ body' = Append(body, asked.paths[next])
        /\ next' = next + 1
        /\ UNCHANGED <<stage, outcome>>
     \/ /\ next <= Len(asked.paths)
        /\ files[asked.paths[next]] # "image"
        /\ finish("exit") /\ UNCHANGED <<next, body>>
     \/ next > Len(asked.paths) /\ goto("write") /\ UNCHANGED <<next, body, outcome>>
  /\ UNCHANGED <<files, asked, written, received, connection, serverVars>>

\* boost::asio::write throws when the connection is found broken.  A piece sent
\* to a socket already closed may still be taken, and be answered by a reset.
write ==
  /\ stage = "write"
  /\ \/ /\ written < Pieces
        /\ written' = written + 1
        /\ connection' \in IF connection = "open" THEN {"open"} ELSE {connection, "reset"}
        /\ UNCHANGED <<stage, outcome>>
     \/ /\ written < Pieces
        /\ connection # "open"
        /\ finish("response") /\ UNCHANGED <<written, connection>>
     \/ /\ written = Pieces
        /\ goto("read") /\ UNCHANGED <<written, connection, outcome>>
  /\ UNCHANGED <<files, asked, next, body, received, serverVars>>

\* Mutant: the first transfer is taken for the whole reply.
read_some ==
  /\ stage = "read"
  /\ \/ /\ received < replied
        /\ received' = received + 1
        /\ finish("response")
     \/ received = replied /\ connection = "closed" /\ finish("response") /\ UNCHANGED received
     \/ received = replied /\ connection = "reset" /\ finish("terminate") /\ UNCHANGED received
  /\ UNCHANGED <<files, asked, next, body, written, connection, serverVars>>

\* boost::asio::read takes what comes until an error: at the end of the
\* connection all of it is the response, any other error is thrown as an
\* error_code, which neither sendRequest nor main() catches.
read ==
  /\ stage = "read"
  /\ \/ /\ received < replied
        /\ received' = received + 1
        /\ UNCHANGED <<stage, outcome>>
     \/ received = replied /\ connection = "closed" /\ finish("response") /\ UNCHANGED received
     \/ received = replied /\ connection = "reset" /\ finish("terminate") /\ UNCHANGED received
  /\ UNCHANGED <<files, asked, next, body, written, connection, serverVars>>

-----------------------------------------------------------------------------
server_reads ==
  /\ connection = "open" /\ taken < written
  /\ taken' = taken + 1
  /\ UNCHANGED <<files, clientVars, connection, running, replied>>

server_writes ==
  /\ connection = "open" /\ taken = Pieces /\ replied < Pieces
  /\ replied' = replied + 1
  /\ UNCHANGED <<files, clientVars, connection, running, taken>>

\* Mutant: the connection is kept for another request.
server_closes_not ==
  /\ connection = "open" /\ replied = Pieces
  /\ UNCHANGED vars

server_closes ==
  /\ connection = "open" /\ replied = Pieces
  /\ connection' = "closed"
  /\ UNCHANGED <<files, clientVars, serverVars>>

\* The system closes the sockets of the process: with a reset when there was
\* something the server had not read.
server_killed ==
  /\ "kill" \in Faults
  /\ running
  /\ running' = FALSE
  /\ connection' = IF connection # "open" THEN connection
                   ELSE IF taken < written THEN "reset" ELSE "closed"
  /\ UNCHANGED <<files, clientVars, taken, replied>>

\* Somebody else removes a file or puts it back.
file_changes ==
  /\ "files" \in Faults
  /\ \E p \in Paths, what \in {"image", "missing"} :
       files' = [files EXCEPT ![p] = what]
  /\ UNCHANGED <<clientVars, connection, serverVars>>

main == formRequest \/ check_file \/ connect \/ open_file \/ write \/ read
server == server_reads \/ server_writes \/ server_closes

Next == main \/ server \/ server_killed \/ file_changes

Spec == Init /\ [][Next]_vars

\* Both processes go on when they can: the client is one thread, and the server
\* handles what arrives and writes what it has.
FairSpec == Spec /\ WF_vars(main) /\ WF_vars(server)
-----------------------------------------------------------------------------
\* The files a request is to bring.
FilesOf(a) == IF a.type = Person THEN a.paths ELSE <<>>

\* The server never gets the whole of a request that some of the files asked for
\* are missing from, even if they vanish after they were checked
\* (client.cpp:179-208).
AllFilesSent == taken = Pieces => body = FilesOf(asked)

\* Unless the server dies or nobody listens, the response is the reply to its
\* end, in however many pieces it comes (client.cpp:246-257).
ResponseWhole == outcome = "response" /\ running => received = Pieces

\* main() always ends: the client waits for the end of the connection, which the
\* server has to bring about by closing it after the reply or by dying
\* (client.cpp:246, connection.cpp:96-101).
ClientEnds == <>(stage = "end")

\* "in case of invalid settings, e.g. input paths do not exists, it will return a
\* request that bool() to false" (client.hpp:92-93).
InvalidIsFalse == outcome # "crash"

\* "upon success it will return the json string, otherwise empty" (client.hpp:106).
EmptyUnlessSuccess ==
  /\ outcome # "terminate"
  /\ outcome = "response" => received \in {0, Pieces}
=============================================================================
