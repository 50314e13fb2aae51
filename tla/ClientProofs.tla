---------------------------- MODULE ClientProofs ----------------------------
(***************************************************************************)
(* What Client promises whatever files there are, however many transfers a *)
(* request takes and whatever goes wrong: proofs of AllFilesSent and       *)
(* ResponseWhole.                                                          *)
(***************************************************************************)
EXTENDS Client, TLAPS

\* The transfers: the server is never ahead of the client's writes, nor the
\* client ahead of the server's, and the reply starts after the whole request.
Progress ==
  /\ written \in 0..Pieces /\ taken \in 0..written
  /\ replied \in 0..Pieces /\ received \in 0..replied
  /\ replied > 0 => taken = Pieces

\* How far the request is put together at each stage.
Collected ==
  /\ asked \in Asked
  /\ body \in Seq(Paths)
  /\ stage \in {"form", "check", "connect", "open", "write", "read", "end"}
  /\ stage = "check" => next \in 1..(Len(asked.paths) + 1)
  /\ stage \in {"form", "connect"} => next = 1
  /\ stage \in {"form", "check", "connect"} => body = <<>>
  /\ stage \in {"form", "check", "connect", "open"} => written = 0
  /\ stage = "open" =>
       /\ asked.type = Person
       /\ next \in 1..(Len(asked.paths) + 1)
       /\ body = SubSeq(asked.paths, 1, next - 1)
  /\ stage \in {"write", "read"} \/ written > 0 => body = FilesOf(asked)

\* While the server runs, it is the one to close the connection, and only after
\* the reply.
Orderly ==
  /\ connection \in {"none", "open", "closed", "reset"}
  /\ running \in BOOLEAN
  /\ connection = "open" => running
  /\ running => connection # "reset"
  /\ running /\ connection = "closed" => replied = Pieces
  /\ stage \in {"open", "write", "read"} => connection # "none"
  /\ stage # "end" => outcome = "none"

IInv == Progress /\ Collected /\ Orderly /\ ResponseWhole

-----------------------------------------------------------------------------
\* A prefix of a sequence and the element after it make the longer prefix: what
\* open_file appends is what is still missing.
LEMMA PrefixGrows ==
  ASSUME NEW S, NEW s \in Seq(S), NEW k \in 1..Len(s)
  PROVE  Append(SubSeq(s, 1, k - 1), s[k]) = SubSeq(s, 1, k)
OBVIOUS

\* The transfers stay in order, whichever side takes a step.
LEMMA ProgressKept ==
  ASSUME IInv, [Next]_vars
  PROVE  Progress'
<1> USE ClientAssumption DEF IInv, Progress
<1>1. CASE main
  BY <1>1 DEF main, formRequest, check_file, connect, open_file, write, read,
              serverVars
<1>2. CASE server
  BY <1>2 DEF server, server_reads, server_writes, server_closes, clientVars, serverVars
<1>3. CASE server_killed
  BY <1>3 DEF server_killed, clientVars
<1>4. CASE file_changes
  BY <1>4 DEF file_changes, clientVars, serverVars
<1>5. CASE UNCHANGED vars
  BY <1>5 DEF vars, clientVars, serverVars
<1>6. QED
  BY <1>1, <1>2, <1>3, <1>4, <1>5 DEF Next

\* What is in the body agrees with the stage, and with what was asked.
LEMMA CollectedKept ==
  ASSUME IInv, [Next]_vars
  PROVE  Collected'
<1> USE ClientAssumption DEF IInv, Collected
<1>0. asked.paths \in Seq(Paths)
  OBVIOUS
<1>1. CASE formRequest
  BY <1>1 DEF formRequest, invalid_request, finish, goto, Progress
<1>2. CASE check_file
  BY <1>2, <1>0 DEF check_file, invalid_request, finish, goto, Progress
<1>3. CASE connect
  <2>1. CASE asked.type = Person
    <3>1. SubSeq(asked.paths, 1, 1 - 1) = <<>>
      BY <1>0
    <3>2. QED
      BY <1>3, <2>1, <3>1, <1>0 DEF connect, finish, goto, Progress
  <2>2. CASE asked.type # Person
    BY <1>3, <2>2 DEF connect, finish, goto, Progress, FilesOf
  <2>3. QED
    BY <2>1, <2>2
<1>4. CASE open_file
  <2>1. CASE next <= Len(asked.paths) /\ stage' = "open"
    <3>1. Append(SubSeq(asked.paths, 1, next - 1), asked.paths[next])
            = SubSeq(asked.paths, 1, next)
      BY <1>0, <1>4, <2>1, PrefixGrows DEF open_file
    <3>2. /\ body' = SubSeq(asked.paths, 1, next) /\ next' = next + 1
          /\ UNCHANGED <<stage, asked, written>> /\ stage = "open"
      BY <1>4, <2>1, <3>1 DEF open_file, finish, goto
    <3>3. body' \in Seq(Paths) /\ next' \in 1..(Len(asked.paths) + 1)
      BY <1>0, <3>2, <2>1
    <3>4. asked'.paths = asked.paths /\ body' = SubSeq(asked'.paths, 1, next' - 1)
      BY <3>2, <1>4 DEF open_file
    <3>5. QED
      BY <3>2, <3>3, <3>4
  <2>2. CASE next <= Len(asked.paths) /\ stage' # "open"
    BY <1>4, <2>2 DEF open_file, finish, goto, Progress
  <2>3. CASE next > Len(asked.paths)
    <3>1. SubSeq(asked.paths, 1, next - 1) = asked.paths
      BY <1>0, <1>4, <2>3 DEF open_file
    <3>2. QED
      BY <1>4, <2>3, <3>1 DEF open_file, goto, FilesOf, Progress
  <2>4. QED
    BY <1>4, <1>0, <2>1, <2>2, <2>3 DEF open_file
<1>5. CASE write
  BY <1>5 DEF write, finish, goto, Progress
<1>6. CASE read
  BY <1>6 DEF read, finish, Progress
<1>7. CASE server \/ server_killed \/ file_changes \/ UNCHANGED vars
  <2>1. UNCHANGED clientVars
    BY <1>7 DEF server, server_reads, server_writes, server_closes, server_killed,
                file_changes, vars
  <2>2. QED
    BY <2>1 DEF clientVars
<1>8. QED
  BY <1>1, <1>2, <1>3, <1>4, <1>5, <1>6, <1>7 DEF Next, main

\* The server closes the connection after the reply only, or dies.
LEMMA OrderlyKept ==
  ASSUME IInv, [Next]_vars
  PROVE  Orderly'
<1> USE ClientAssumption DEF IInv, Orderly
<1>1. CASE formRequest \/ check_file
  BY <1>1 DEF formRequest, check_file, invalid_request, finish, goto, serverVars
<1>2. CASE connect
  BY <1>2 DEF connect, finish, goto, serverVars
<1>3. CASE open_file
  BY <1>3 DEF open_file, finish, goto, serverVars
<1>4. CASE write
  \* Before its last piece is written the server cannot have replied.
  <2>1. written < Pieces => ~(running /\ connection = "closed")
    BY DEF Progress
  <2>2. QED
    BY <1>4, <2>1 DEF write, finish, goto, serverVars
<1>5. CASE read
  BY <1>5 DEF read, finish, serverVars
<1>6. CASE server
  BY <1>6 DEF server, server_reads, server_writes, server_closes, clientVars,
              serverVars, Progress
<1>7. CASE server_killed
  BY <1>7 DEF server_killed, clientVars
<1>8. CASE file_changes \/ UNCHANGED vars
  BY <1>8 DEF file_changes, vars, clientVars, serverVars
<1>9. QED
  BY <1>1, <1>2, <1>3, <1>4, <1>5, <1>6, <1>7, <1>8 DEF Next, main

\* A response is given back when nobody listens, when the connection breaks, or
\* at its end: only the last can happen while the server runs.
LEMMA ResponseKept ==
  ASSUME IInv, [Next]_vars
  PROVE  ResponseWhole'
<1> USE ClientAssumption DEF IInv, ResponseWhole
<1>1. CASE formRequest \/ check_file \/ connect \/ open_file
  BY <1>1 DEF formRequest, check_file, connect, open_file, invalid_request, finish,
              goto, serverVars, Orderly
<1>2. CASE write
  <2>1. written < Pieces => ~(running /\ connection = "closed")
    BY DEF Progress, Orderly
  <2>2. stage = "write" => connection # "none"
    BY DEF Orderly
  <2>3. QED
    BY <1>2, <2>1, <2>2 DEF write, finish, goto, serverVars, Orderly
<1>3. CASE read
  BY <1>3 DEF read, finish, serverVars, Orderly
<1>4. CASE server \/ server_killed \/ file_changes \/ UNCHANGED vars
  <2>1. UNCHANGED clientVars /\ (running' => running)
    BY <1>4 DEF server, server_reads, server_writes, server_closes, server_killed,
                file_changes, vars, serverVars
  <2>2. QED
    BY <2>1 DEF clientVars
<1>5. QED
  BY <1>1, <1>2, <1>3, <1>4 DEF Next, main

\* The invariant the theorems below follow from.
THEOREM Invariance == Spec => []IInv
<1>1. Init => IInv
  <2> SUFFICES ASSUME Init PROVE IInv
    OBVIOUS
  <2>1. Progress /\ ResponseWhole
    BY ClientAssumption DEF Init, Progress, ResponseWhole
  <2>2. Collected
    BY DEF Init, Collected
  <2>3. Orderly
    BY DEF Init, Orderly
  <2>4. QED
    BY <2>1, <2>2, <2>3 DEF IInv
<1>2. IInv /\ [Next]_vars => IInv'
  BY ProgressKept, CollectedKept, OrderlyKept, ResponseKept DEF IInv
<1>3. QED
  BY <1>1, <1>2, PTL DEF Spec

\* The server never gets the whole of a request that lacks a file, for any number
\* of files and of transfers (client.cpp:179-208).
THEOREM AllFilesSentAlways == Spec => []AllFilesSent
<1>1. IInv => AllFilesSent
  BY ClientAssumption DEF IInv, Progress, Collected, AllFilesSent
<1>2. QED
  BY <1>1, Invariance, PTL

\* With a server that stays alive the response is the whole reply, for any number
\* of transfers (client.cpp:246-257).
THEOREM ResponseWholeAlways == Spec => []ResponseWhole
BY Invariance, PTL DEF IInv
=============================================================================
