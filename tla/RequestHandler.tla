--------------------------- MODULE RequestHandler ---------------------------
(***************************************************************************)
(* http::server::request_handler::handle_request, with the pipeline it     *)
(* runs, the storage it saves to, and the clients that wait for it.        *)
(*                                                                         *)
(* handle_request runs on the only thread, inside handle_read, so one      *)
(* request is handled at a time and the others wait.  Between its steps    *)
(* the process can still be killed, and any exception that leaves it ends  *)
(* main(): both take the connections of all waiting clients with them.     *)
(***************************************************************************)
EXTENDS HistoryStorage, Images, FiniteSets

CONSTANTS
  Jobs,          \* the connections of a run, one request each
  Forms,         \* the requests clients may send
  Blank,         \* images run() returns "" for: no person found, or not an image
  Garbled,       \* contents base64_decode throws on
  Faults,        \* what may go wrong outside: "crash", "redis", "models"
  MaxRestarts    \* bound: how often the server is started again

ASSUME FaultsAssumption ==
  Faults \subseteq {"crash", "redis", "models"} /\ MaxRestarts \in Nat

ASSUME FormsAssumption ==
  Forms \subseteq [path : STRING, parts : Seq([filename : STRING, image : STRING])]

VARIABLES
  process,    \* "up" or "down"
  restarts,
  sent,       \* what each client has sent
  stage,      \* how far handle_request is, in the request of `current'
  current,
  images,     \* what retrieveImages found: filename -> base64 text
  results,    \* what the pipeline returned so far: filename -> json
  ready,      \* person.init() loaded the models
  reply,      \* connection::reply_, once it is filled
  got         \* how it ended for each client

handlerVars == <<stage, current, images, results, ready>>
clientVars == <<sent, reply, got>>
vars == <<process, restarts, handlerVars, clientVars, storageVars>>

None == [kind |-> "none"]
Closed == [kind |-> "closed"]
BadRequest == [kind |-> "bad_request"]
Ok(kind, content) == [kind |-> kind, content |-> content]

\* PersonPipeline::run: the json of the image, or "" when there is none to tell
\* of, whatever the reason.
run(image) == IF ready /\ image \notin Blank THEN image ELSE ""

\* combineJsonResults cuts the braces off each result: substr(2, ...) throws on
\* a result that has none.
Combinable == \A f \in DOMAIN results : results[f] # ""

-----------------------------------------------------------------------------
\* Mutant: the clients are left waiting.
goes_down_open ==
  /\ process' = "down"
  /\ stage' = "idle"
  /\ UNCHANGED <<restarts, clientVars, current, images, results, ready>>

\* The process is gone, and every connection with it.
goes_down ==
  /\ process' = "down"
  /\ stage' = "idle"
  /\ got' = [j \in Jobs |-> IF sent[j] # None /\ got[j] = None THEN Closed ELSE got[j]]
  /\ UNCHANGED <<restarts, sent, current, images, results, ready, reply>>

\* rep is filled and handle_request returns.
make_reply(j, r) ==
  /\ reply' = [reply EXCEPT ![j] = r]
  /\ stage' = "idle"
  /\ UNCHANGED <<process, restarts, sent, got, current, images, results, ready>>

Init ==
  /\ process = "up"
  /\ restarts = 0
  /\ sent = [j \in Jobs |-> None]
  /\ stage = "idle"
  /\ current \in Jobs
  /\ images = <<>> /\ results = <<>> /\ ready = FALSE
  /\ reply = [j \in Jobs |-> None]
  /\ got = [j \in Jobs |-> None]
  /\ StorageInit

\* A client has sent its whole request.
client_sends(j) ==
  /\ process = "up"
  /\ sent[j] = None
  /\ \E form \in Forms : sent' = [sent EXCEPT ![j] = form]
  /\ UNCHANGED <<process, restarts, handlerVars, reply, got, storageVars>>

\* handle_request is called for j.
Called(j) ==
  /\ process = "up"
  /\ stage = "idle"
  /\ sent[j] # None /\ reply[j] = None /\ got[j] = None

\* An unknown path, a path with "..", or a body that is not the multipart message
\* its headers announce.
refuse(j) ==
  /\ Called(j)
  /\ \/ sent[j].path \notin {"/predict", "/history"}
     \/ sent[j].path = "/predict" /\ sent[j].parts = <<>>
  /\ make_reply(j, BadRequest)
  /\ UNCHANGED storageVars

\* /history
tell_history(j) ==
  /\ Called(j)
  /\ sent[j].path = "/history"
  /\ \/ make_reply(j, Ok("history", getAll))
     \/ "redis" \in Faults /\ goes_down     \* hgetall throws
  /\ UNCHANGED storageVars

\* Mutant: the results of the request before are not cleared.
start_predict_keeps(j) ==
  /\ Called(j)
  /\ sent[j].path = "/predict" /\ sent[j].parts # <<>>
  /\ stage' = "predicting"
  /\ current' = j
  /\ images' = ImagesOf(sent[j].parts)
  /\ ready' \in IF "models" \in Faults THEN BOOLEAN ELSE {TRUE}
  /\ UNCHANGED <<process, restarts, results, clientVars, storageVars>>

\* /predict: the images are taken from the request and the models are loaded; the
\* result of init() is not looked at.
start_predict(j) ==
  /\ Called(j)
  /\ sent[j].path = "/predict" /\ sent[j].parts # <<>>
  /\ stage' = "predicting"
  /\ current' = j
  /\ images' = ImagesOf(sent[j].parts)
  /\ results' = <<>>
  /\ ready' \in IF "models" \in Faults THEN BOOLEAN ELSE {TRUE}
  /\ UNCHANGED <<process, restarts, clientVars, storageVars>>

\* One turn of the loop over the images, which come in any order.
predict_image ==
  /\ process = "up"
  /\ stage = "predicting"
  /\ \E f \in DOMAIN images \ DOMAIN results :
       \/ /\ images[f] \in Garbled           \* throws a const char*
          /\ goes_down
       \/ /\ images[f] \notin Garbled
          /\ results' = Assign(results, f, run(images[f]))
          /\ UNCHANGED <<process, restarts, stage, current, images, ready, clientVars>>
  /\ UNCHANGED storageVars

\* The loop over the images has ended.
AllDone_some == results # <<>>                               \* mutant
AllDone == DOMAIN results = DOMAIN images

\* All images are done: combine, save under a new handle, fill the reply.
save_and_reply ==
  /\ process = "up"
  /\ stage = "predicting"
  /\ AllDone
  /\ \/ /\ ~Combinable                       \* throws std::out_of_range
        /\ goes_down
        /\ UNCHANGED storageVars
     \/ /\ Combinable
        /\ generateHandle
        /\ save(m_ctr, results)
        /\ make_reply(current, Ok("predict", results))
     \/ /\ Combinable /\ "redis" \in Faults  \* hset throws: the record was not
        /\ generateHandle                    \* written, or its answer was lost
        /\ save(m_ctr, results) \/ UNCHANGED history
        /\ goes_down

\* The reply has been written, and the connection is closed.
deliver(j) ==
  /\ process = "up"
  /\ reply[j] # None /\ got[j] = None
  /\ got' = [got EXCEPT ![j] = reply[j]]
  /\ UNCHANGED <<process, restarts, handlerVars, sent, reply, storageVars>>

crash ==
  /\ "crash" \in Faults
  /\ process = "up"
  /\ goes_down
  /\ UNCHANGED storageVars

restart ==
  /\ process = "down"
  /\ restarts < MaxRestarts
  /\ restarts' = restarts + 1
  /\ process' = "up"
  /\ StorageRestart
  /\ UNCHANGED <<handlerVars, clientVars>>

handle_request ==
  \/ \E j \in Jobs : refuse(j) \/ tell_history(j) \/ start_predict(j)
  \/ predict_image
  \/ save_and_reply

\* Nothing is left to do once every client has its end, or the server is not
\* started again.
Quiet ==
  /\ \/ \A j \in Jobs : got[j] # None
     \/ process = "down" /\ restarts = MaxRestarts
  /\ UNCHANGED vars

Next ==
  \/ handle_request
  \/ \E j \in Jobs : client_sends(j) \/ deliver(j)
  \/ crash
  \/ restart
  \/ Quiet

Spec == Init /\ [][Next]_vars

\* The event loop calls handle_read for what has arrived, and writes what has
\* been answered.
FairSpec ==
  /\ Spec
  /\ WF_vars(handle_request)
  /\ \A j \in Jobs : WF_vars(deliver(j))
-----------------------------------------------------------------------------
TypeOK ==
  /\ process \in {"up", "down"}
  /\ restarts \in 0..MaxRestarts
  /\ sent \in [Jobs -> Forms \cup {None}]
  /\ stage \in {"idle", "predicting"}
  /\ current \in Jobs
  /\ ready \in BOOLEAN
  /\ m_ctr \in 0..(HandleRange - 1)
  /\ \A j \in Jobs :
       /\ reply[j].kind \in {"none", "bad_request", "predict", "history"}
       /\ got[j].kind \in {"none", "bad_request", "predict", "history", "closed"}

Records(c) == {h \in DOMAIN history : history[h] = c}
Predicted(c) == {j \in Jobs : got[j].kind = "predict" /\ got[j].content = c}
Asking(c) == {j \in Jobs : sent[j] # None /\ sent[j].path = "/predict" /\
                           sent[j].parts # <<>> /\ Tells(c, sent[j].parts)}

\* No client gets somebody else's results, or only some of its own: its reply has a
\* result for every file name in its request, that of the last file with the name, and
\* no other; a refusal is for requests that are not served.  (Files with one name share
\* an entry of the map, and all but the last are never looked at: "for every incoming
\* image", README.md:5, is true of names, request_handler.cpp:87-120, 237.)
AnswerIsOwn ==
  \A j \in Jobs :
    /\ got[j].kind = "predict" =>
         sent[j].path = "/predict" /\ Tells(got[j].content, sent[j].parts)
    /\ got[j].kind = "history" => sent[j].path = "/history"
    /\ got[j].kind = "bad_request" =>
         sent[j].path # "/history" /\ (sent[j].path = "/predict" => sent[j].parts = <<>>)

\* What is in the database is the whole result of a request, saved once: an image
\* that fails leaves nothing of its request behind, and no record is
\* written twice (request_handler.cpp:89-110).
RecordsWhole ==
  \A h \in DOMAIN history :
    Cardinality(Records(history[h])) <= Cardinality(Asking(history[h]))

\* "A copy of result is saved on database upon the server" (README.md:30): by the
\* time a client has its results, so has the database, as long as the handles are
\* not given out again after a restart (request_handler.cpp:109-113).
AnsweredIsSaved ==
  \A j \in Jobs :
    got[j].kind = "predict" /\ restarts = 0 =>
      Cardinality(Predicted(got[j].content)) <= Cardinality(Records(got[j].content))

\* No record is lost or replaced by another job of the same server process: what a
\* later getAll returns includes everything that was ever saved
\* (historyStorage.cpp:35-44).
HistoryKept ==
  [][restarts = 0 =>
       \A h \in DOMAIN history : h \in DOMAIN history' /\ history'[h] = history[h]]_vars

\* A history reply leaves nothing out: when it is made, all that some client already
\* has is in it (request_handler.cpp:122-143).
HistoryTold ==
  [][\A j \in Jobs :
       reply'[j].kind = "history" /\ reply[j] = None /\ restarts = 0 =>
         \A k \in Jobs : got[k].kind = "predict" =>
           \E h \in DOMAIN reply'[j].content : reply'[j].content[h] = got[k].content]_vars

\* Every client that has sent a request gets an answer or is cut off, however
\* many are ahead of it.
Settled == \A j \in Jobs : sent[j] # None ~> got[j] # None

\* "generate a unique job handle that will be used for later save operation"
\* (historyStorage.hpp:43): the handle about to be used is not in use.
HandleUnique == process = "up" => m_ctr \notin DOMAIN history

\* "Server wraps inference results into human-readable json format and sends back
\* to client" (README.md:29): with nothing failing outside, a request with
\* images in it does not end the server.
SurvivesRequests == process = "up"
-----------------------------------------------------------------------------
Service == INSTANCE InferenceService WITH
  Handles <- 0..(HandleRange - 1),
  up <- process = "up",
  first <- restarts = 0,
  decided <- reply,
  saved <- history

\* Seen from outside a request is answered and recorded in one step or not at all,
\* although it takes many and each of them may be the last: no client, no history
\* reply and no record shows that it was in progress (request_handler.cpp:82-120).
ImplementsInference == Service!Spec
=============================================================================
