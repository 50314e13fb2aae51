------------------------ MODULE RequestHandlerProofs ------------------------
(***************************************************************************)
(* What holds of RequestHandler for every set of connections, requests,    *)
(* images and faults, and for every number of restarts.  Two inductive     *)
(* invariants carry it: IInv, which needs nothing, and SInv, about the     *)
(* records of a server process that has not used up its handles.           *)
(***************************************************************************)
EXTENDS RequestHandler, FiniteSetTheorems, TLAPS

\* What handle_request makes of the files of a request.
Whole(form) == ImagesOf(form.parts)

Kinds ==
  \A j \in Jobs :
    /\ reply[j].kind \in {"none", "bad_request", "predict", "history"}
    /\ got[j].kind \in {"none", "bad_request", "predict", "history", "closed"}

Answered(j) == reply[j] # None \/ got[j] # None

\* reply_ is filled once, for a request that has arrived, and says what that
\* request asked for.
RepliesOwn ==
  /\ DOMAIN reply = Jobs
  /\ \A j \in Jobs :
       \/ reply[j] = None
       \/ /\ reply[j] = BadRequest
          /\ sent[j] # None /\ sent[j].path # "/history"
          /\ sent[j].path = "/predict" => sent[j].parts = <<>>
       \/ /\ reply[j] = Ok("history", reply[j].content)
          /\ sent[j] # None /\ sent[j].path = "/history"
       \/ /\ reply[j] = Ok("predict", Whole(sent[j]))
          /\ sent[j] # None /\ sent[j].path = "/predict" /\ sent[j].parts # <<>>

\* What a client got is its own reply, or the end of its connection.
GotOwn ==
  /\ DOMAIN got = Jobs
  /\ \A j \in Jobs : got[j] # None =>
       sent[j] # None /\ (got[j] = Closed \/ got[j] = reply[j])

\* While a predict request is in progress, `images' and `results' are about it,
\* and nobody has been told anything of it.
InProgress ==
  stage = "predicting" =>
    /\ process = "up"
    /\ sent[current] # None /\ ~Answered(current)
    /\ sent[current].path = "/predict" /\ sent[current].parts # <<>>
    /\ images = Whole(sent[current])
    /\ results = [f \in DOMAIN results |-> results[f]]
    /\ DOMAIN results \subseteq DOMAIN images
    /\ \A f \in DOMAIN results : results[f] \in {images[f], ""}

\* A record belongs to one request, which has its end: no two records to the same.
RecordsOwned ==
  \E owner \in Injection(DOMAIN history, Jobs) :
    \A h \in DOMAIN history :
      Answered(owner[h]) /\ owner[h] \in Asking(history[h])

\* At any time only so many requests have been sent.
SentFinite == IsFiniteSet({j \in Jobs : sent[j] # None})

IInv ==
  /\ TypeOK
  /\ DOMAIN sent = Jobs
  /\ RepliesOwn
  /\ GotOwn
  /\ InProgress
  /\ RecordsOwned
  /\ SentFinite

-----------------------------------------------------------------------------
\* Wherever the process ends, the replies it made stay what they were, and
\* everybody who has sent something has its end.
LEMMA GoesDown ==
  ASSUME IInv, goes_down
  PROVE  /\ process' = "down" /\ stage' = "idle"
         /\ UNCHANGED <<restarts, sent, reply, current, ready>>
         /\ DOMAIN got' = Jobs
         /\ \A j \in Jobs :
              got'[j] = IF sent[j] # None /\ got[j] = None THEN Closed ELSE got[j]
         /\ RepliesOwn' /\ GotOwn' /\ InProgress'
         /\ \A j \in Jobs : sent[j] # None => Answered(j)'
<1>1. /\ process' = "down" /\ stage' = "idle"
      /\ UNCHANGED <<restarts, sent, reply, current, ready>>
      /\ DOMAIN got' = Jobs
      /\ \A j \in Jobs :
           got'[j] = IF sent[j] # None /\ got[j] = None THEN Closed ELSE got[j]
  BY DEF goes_down
<1>2. RepliesOwn'
  BY <1>1 DEF IInv, RepliesOwn, Whole
<1>3. GotOwn'
  BY <1>1 DEF IInv, GotOwn
<1>4. InProgress'
  BY <1>1 DEF InProgress
<1>5. \A j \in Jobs : sent[j] # None => Answered(j)'
  BY <1>1 DEF Answered, Closed, None
<1> QED
  BY <1>1, <1>2, <1>3, <1>4, <1>5

\* That map tells of the last file of every name: no other has its place.
LEMMA WholeTells ==
  ASSUME NEW form \in Forms
  PROVE  Tells(Whole(form), form.parts)
<1> DEFINE parts == form.parts
           names == {parts[i].filename : i \in DOMAIN parts}
           Last(f, i) == /\ parts[i].filename = f
                         /\ \A j \in DOMAIN parts : parts[j].filename = f => j <= i
<1>1. DOMAIN parts \subseteq Int
  BY FormsAssumption
<1>2. Whole(form) = [f \in names |-> parts[CHOOSE i \in DOMAIN parts : Last(f, i)].image]
  BY Zenon DEF Whole, ImagesOf
<1>3. ASSUME NEW i \in Lasting(parts), NEW f, f = parts[i].filename
      PROVE  f \in names /\ i = CHOOSE k \in DOMAIN parts : Last(f, k)
  <2>1. i \in DOMAIN parts /\ Last(f, i)
    BY <1>1, <1>3 DEF Lasting
  <2>2. ASSUME NEW k \in DOMAIN parts, Last(f, k)
        PROVE  k = i
    <3>1. i <= k /\ k <= i
      BY <2>1, <2>2, <1>3
    <3> QED
      BY <1>1, <2>1, <3>1
  <2> QED
    BY <1>3, <2>1, <2>2
<1>4. \A i \in Lasting(parts) : Whole(form)[parts[i].filename] = parts[i].image
  <2> HIDE DEF Last, names, parts
  <2> QED
    BY <1>2, <1>3
<1>5. DOMAIN Whole(form) = names
  BY <1>2, Zenon
<1> QED
  BY <1>4, <1>5 DEF Tells

\* A record that is owned stays owned when nobody asks anew and no end is undone.
LEMMA OwnersStay ==
  ASSUME RecordsOwned, UNCHANGED history,
         \A j \in Jobs : sent[j] # None => sent'[j] = sent[j],
         \A j \in Jobs : Answered(j) => Answered(j)'
  PROVE  RecordsOwned'
<1>1. PICK owner \in Injection(DOMAIN history, Jobs) :
        \A h \in DOMAIN history : Answered(owner[h]) /\ owner[h] \in Asking(history[h])
  BY DEF RecordsOwned
<1>2. \A h \in DOMAIN history : owner[h] \in Jobs
  BY DEF Injection, IsInjective
<1>3. \A h \in DOMAIN history : Answered(owner[h])' /\ owner[h] \in Asking(history[h])'
  <2> SUFFICES ASSUME NEW h \in DOMAIN history
               PROVE  Answered(owner[h])' /\ owner[h] \in Asking(history[h])'
    BY Zenon
  <2>1. PICK j \in Jobs : j = owner[h]
    BY <1>2
  <2>2. Answered(j) /\ j \in Asking(history[h])
    BY <1>1, <2>1
  <2>3. sent[j] # None /\ sent'[j] = sent[j] /\ history'[h] = history[h]
    BY <2>2 DEF Asking
  <2>4. j \in Asking(history[h])'
    BY <2>2, <2>3 DEF Asking, Tells, Lasting
  <2> QED
    BY <2>1, <2>2, <2>4
<1>4. DOMAIN history' = DOMAIN history
  OBVIOUS
<1> QED
  BY <1>3, <1>4 DEF RecordsOwned

\* The results that are saved and sent are those of all the names in the request:
\* a missing one would have kept the loop going, an empty one throws.
LEMMA ResultsWhole ==
  ASSUME InProgress, stage = "predicting", AllDone, Combinable
  PROVE  results = Whole(sent[current])
<1>1. results = [f \in DOMAIN images |-> images[f]]
  BY DEF InProgress, AllDone, Combinable
<1>2. images = [f \in DOMAIN images |-> images[f]]
  BY DEF InProgress, Whole, ImagesOf
<1> QED
  BY <1>1, <1>2 DEF InProgress

\* save gives the record to the request in progress, which has its end in the same
\* step; whose record it replaced, if anybody's, has none any more.
LEMMA SaveOwned ==
  ASSUME IInv, stage = "predicting", AllDone, Combinable, save(m_ctr, results),
         NEW c \in Jobs, c = current,
         UNCHANGED sent, \A j \in Jobs : Answered(j) \/ j = c => Answered(j)'
  PROVE  RecordsOwned'
<1>1. results = Whole(sent[current])
  BY ResultsWhole DEF IInv
<1>2. c \in Asking(results)
  <2>1. sent[c] \in Forms
    BY DEF IInv, InProgress, TypeOK
  <2> QED
    BY <1>1, <2>1, WholeTells DEF IInv, InProgress, Asking
<1>3. PICK owner \in Injection(DOMAIN history, Jobs) :
        \A h \in DOMAIN history : Answered(owner[h]) /\ owner[h] \in Asking(history[h])
  BY DEF IInv, RecordsOwned
<1>4. DOMAIN owner = DOMAIN history /\ \A h \in DOMAIN history : owner[h] \in Jobs
  BY DEF Injection, IsInjective
<1>5. /\ DOMAIN history' = {m_ctr} \cup DOMAIN history
      /\ history'[m_ctr] = results
      /\ \A h \in DOMAIN history : h # m_ctr => history'[h] = history[h]
  BY DEF save, Assign
<1>6. PICK next :
      /\ DOMAIN next = {m_ctr} \cup DOMAIN history
      /\ next[m_ctr] = c
      /\ \A h \in DOMAIN history : h # m_ctr => next[h] = owner[h]
      /\ next = [h \in {m_ctr} \cup DOMAIN history |-> next[h]]
  <2> WITNESS Assign(owner, m_ctr, c)
  <2> QED
    BY <1>4 DEF Assign
<1>7. \A h \in DOMAIN history : owner[h] # c
  BY <1>3 DEF IInv, InProgress
<1>8. next \in Injection(DOMAIN history', Jobs)
  <2>1. next \in [DOMAIN history' -> Jobs]
    BY <1>2, <1>4, <1>5, <1>6
  <2>2. ASSUME NEW a \in DOMAIN history', NEW b \in DOMAIN history', next[a] = next[b]
        PROVE  a = b
    BY <2>2, <1>5, <1>6, <1>7 DEF Injection, IsInjective
  <2> QED
    BY <2>1, <2>2 DEF Injection, IsInjective
<1>9. \A h \in DOMAIN history' : Answered(next[h])' /\ next[h] \in Asking(history[h])'
  <2> SUFFICES ASSUME NEW h \in DOMAIN history'
               PROVE  Answered(next[h])' /\ next[h] \in Asking(history[h])'
    BY Zenon
  <2>1. CASE h = m_ctr
    <3>1. next[h] = c /\ history'[h] = results /\ c \in Asking(results)
      BY <1>2, <1>5, <1>6, <2>1
    <3>2. c \in Asking(history[h])'
      BY <3>1 DEF Asking, Tells, Lasting
    <3> QED
      BY <3>1, <3>2
  <2>2. CASE h # m_ctr
    <3>1. PICK j \in Jobs : j = owner[h] /\ j = next[h]
      BY <1>4, <1>5, <1>6, <2>2
    <3>2. Answered(j) /\ j \in Asking(history[h]) /\ history'[h] = history[h]
      BY <1>3, <1>5, <2>2, <3>1
    <3>3. j \in Asking(history[h])'
      BY <3>2 DEF Asking, Tells, Lasting
    <3> QED
      BY <3>1, <3>2, <3>3
  <2> QED
    BY <2>1, <2>2
<1> QED
  BY <1>1, <1>8, <1>9 DEF RecordsOwned

\* Filling reply_ with what the request asked for ends the request, and disturbs no
\* other.
LEMMA MakesReply ==
  ASSUME IInv, NEW j \in Jobs, ~Answered(j), NEW r, make_reply(j, r),
         sent[j] # None,
         \/ /\ r = BadRequest
            /\ sent[j].path # "/history"
            /\ sent[j].path = "/predict" => sent[j].parts = <<>>
         \/ (\E content : r = Ok("history", content)) /\ sent[j].path = "/history"
         \/ /\ r = Ok("predict", Whole(sent[j]))
            /\ sent[j].path = "/predict" /\ sent[j].parts # <<>>
  PROVE  /\ r # None /\ r.kind \in {"bad_request", "predict", "history"}
         /\ DOMAIN reply' = Jobs
         /\ \A k \in Jobs : reply'[k] = IF k = j THEN r ELSE reply[k]
         /\ RepliesOwn' /\ GotOwn' /\ InProgress'
         /\ \A k \in Jobs : Answered(k) \/ k = j => Answered(k)'
<1>1. /\ DOMAIN reply' = Jobs
      /\ \A k \in Jobs : reply'[k] = IF k = j THEN r ELSE reply[k]
      /\ stage' = "idle" /\ sent' = sent /\ got' = got
  BY DEF make_reply, IInv, RepliesOwn
<1>2. r # None /\ r.kind \in {"bad_request", "predict", "history"}
  BY DEF None, BadRequest, Ok
<1>3. RepliesOwn'
  <2>1. (\E content : r = Ok("history", content)) => r = Ok("history", r.content)
    BY DEF Ok
  <2> QED
    BY <1>1, <2>1 DEF IInv, RepliesOwn, Whole
<1>4. GotOwn'
  BY <1>1 DEF IInv, GotOwn, Answered
<1>5. InProgress'
  BY <1>1 DEF InProgress
<1>6. \A k \in Jobs : Answered(k) \/ k = j => Answered(k)'
  BY <1>1, <1>2 DEF Answered
<1> QED
  BY <1>1, <1>2, <1>3, <1>4, <1>5, <1>6

\* What TypeOK says of reply_ and of what the clients got follows from their being
\* about the requests.
LEMMA KindsFollow == RepliesOwn /\ GotOwn => Kinds
<1> SUFFICES ASSUME RepliesOwn, GotOwn, NEW j \in Jobs
             PROVE  /\ reply[j].kind \in {"none", "bad_request", "predict", "history"}
                    /\ got[j].kind \in {"none", "bad_request", "predict", "history", "closed"}
  BY DEF Kinds
<1>1. reply[j].kind \in {"none", "bad_request", "predict", "history"}
  BY DEF RepliesOwn, None, BadRequest, Ok
<1>2. got[j] \in {None, Closed, reply[j]}
  BY DEF GotOwn
<1> QED
  BY <1>1, <1>2 DEF None, Closed

-----------------------------------------------------------------------------
\* handle_request, the faults and the clients keep a reply to the results of the files
\* it is about: the inductive invariant of the serving half, through crashes and restarts.
THEOREM Invariance == Spec => []IInv
<1>1. Init => IInv
  <2> SUFFICES ASSUME Init
               PROVE  IInv
    OBVIOUS
  <2>1. RepliesOwn /\ GotOwn /\ InProgress
    BY DEF Init, RepliesOwn, GotOwn, InProgress
  <2>2. TypeOK /\ DOMAIN sent = Jobs
    <3>1. Kinds
      BY <2>1, KindsFollow
    <3>2. sent \in [Jobs -> Forms \cup {None}] /\ DOMAIN sent = Jobs
      BY DEF Init
    <3>3. restarts \in 0..MaxRestarts /\ m_ctr \in 0..(HandleRange - 1)
      BY HandleAssumption, FaultsAssumption DEF Init, StorageInit
    <3> QED
      BY <3>1, <3>2, <3>3 DEF Init, TypeOK, Kinds
  <2>3. RecordsOwned
    <3>1. DOMAIN history = {}
      BY DEF Init, StorageInit
    <3>2. PICK owner : owner = [h \in {} |-> current]
      OBVIOUS
    <3>3. owner \in [{} -> Jobs] /\ IsInjective(owner)
      <4>1. owner \in [{} -> Jobs]
        BY <3>2
      <4>2. \A a, b \in DOMAIN owner : owner[a] = owner[b] => a = b
        BY <3>2
      <4> QED
        BY <4>1, <4>2 DEF IsInjective
    <3>4. owner \in Injection(DOMAIN history, Jobs)
      BY <3>1, <3>3 DEF Injection
    <3> QED
      BY <3>1, <3>4 DEF RecordsOwned
  <2>4. SentFinite
    <3>1. {j \in Jobs : sent[j] # None} = {}
      BY DEF Init
    <3> QED
      BY <3>1, FS_EmptySet DEF SentFinite
  <2> QED
    BY <2>1, <2>2, <2>3, <2>4 DEF IInv
<1>2. IInv /\ [Next]_vars => IInv'
  <2> SUFFICES ASSUME IInv, [Next]_vars
               PROVE  IInv'
    OBVIOUS
  <2> USE DEF IInv
  <2>kinds. RepliesOwn' /\ GotOwn' => Kinds'
    BY KindsFollow, PTL
  <2>types. /\ m_ctr' \in 0..(HandleRange - 1)
            /\ process' \in {"up", "down"} /\ restarts' \in 0..MaxRestarts
            /\ stage' \in {"idle", "predicting"} /\ ready' \in BOOLEAN
            /\ current' \in Jobs
            /\ sent' \in [Jobs -> Forms \cup {None}]
            /\ RepliesOwn' /\ GotOwn'
            => TypeOK' /\ DOMAIN sent' = Jobs
    BY <2>kinds DEF TypeOK, Kinds
  <2>counts. generateHandle => m_ctr' \in 0..(HandleRange - 1)
    BY HandleAssumption DEF generateHandle, TypeOK
  <2>same. UNCHANGED sent => SentFinite'
    BY DEF SentFinite
  <2>1. ASSUME NEW j \in Jobs, client_sends(j)
        PROVE  IInv'
    <3>1. PICK form \in Forms : sent' = [sent EXCEPT ![j] = form]
      BY <2>1 DEF client_sends
    <3>2. /\ UNCHANGED <<process, restarts, stage, current, images, results, ready>>
          /\ UNCHANGED <<reply, got, m_ctr, history>>
          /\ sent[j] = None /\ sent' \in [Jobs -> Forms \cup {None}]
          /\ \A k \in Jobs : k # j => sent'[k] = sent[k]
      BY <2>1, <3>1 DEF client_sends, handlerVars, storageVars, TypeOK
    <3>3. RepliesOwn'
      BY <3>2 DEF RepliesOwn, Whole
    <3>4. GotOwn'
      BY <3>2 DEF GotOwn
    <3>5. InProgress'
      BY <3>2 DEF InProgress, Answered, Whole, TypeOK
    <3>6. RecordsOwned'
      <4>1. /\ \A k \in Jobs : sent[k] # None => sent'[k] = sent[k]
            /\ \A k \in Jobs : Answered(k) => Answered(k)'
        BY <3>2 DEF Answered
      <4> QED
        BY <3>2, <4>1, OwnersStay
    <3>7. SentFinite'
      <4>1. {k \in Jobs : sent'[k] # None} \in SUBSET ({k \in Jobs : sent[k] # None} \cup {j})
        BY <3>2
      <4>2. IsFiniteSet({k \in Jobs : sent[k] # None} \cup {j})
        BY FS_AddElement DEF SentFinite
      <4> QED
        BY <4>1, <4>2, FS_Subset DEF SentFinite
    <3> QED
      BY <3>2, <3>3, <3>4, <3>5, <3>6, <3>7, <2>types DEF TypeOK
  <2>2. ASSUME NEW j \in Jobs, deliver(j)
        PROVE  IInv'
    <3>1. /\ UNCHANGED <<process, restarts, stage, current, images, results, ready>>
          /\ UNCHANGED <<sent, reply, m_ctr, history>>
          /\ reply[j] # None /\ got[j] = None
          /\ DOMAIN got' = Jobs
          /\ \A k \in Jobs : got'[k] = IF k = j THEN reply[j] ELSE got[k]
      BY <2>2 DEF deliver, handlerVars, storageVars, GotOwn
    <3>2. RepliesOwn'
      BY <3>1 DEF RepliesOwn, Whole
    <3>3. GotOwn'
      BY <3>1 DEF GotOwn, RepliesOwn
    <3>4. InProgress'
      BY <3>1 DEF InProgress, Answered, Whole, TypeOK
    <3>5. RecordsOwned'
      <4>1. \A k \in Jobs : Answered(k) => Answered(k)'
        BY <3>1 DEF Answered
      <4> QED
        BY <3>1, <4>1, OwnersStay
    <3> QED
      BY <3>1, <3>2, <3>3, <3>4, <3>5, <2>types, <2>same DEF TypeOK
  <2>3. ASSUME NEW j \in Jobs, Called(j), NEW r, make_reply(j, r), UNCHANGED storageVars,
               \/ /\ r = BadRequest
                  /\ sent[j].path # "/history"
                  /\ sent[j].path = "/predict" => sent[j].parts = <<>>
               \/ r = Ok("history", getAll) /\ sent[j].path = "/history"
        PROVE  IInv'
    <3>1. ~Answered(j) /\ sent[j] # None /\ process = "up"
      BY <2>3 DEF Called, Answered
    <3>2. /\ RepliesOwn' /\ GotOwn' /\ InProgress'
          /\ \A k \in Jobs : Answered(k) => Answered(k)'
      BY <2>3, <3>1, MakesReply
    <3>3. RecordsOwned'
      BY <2>3, <3>2, OwnersStay DEF make_reply, storageVars
    <3> QED
      BY <2>3, <3>2, <3>3, <2>types, <2>same DEF make_reply, storageVars, TypeOK
  <2>4. ASSUME goes_down, UNCHANGED storageVars
        PROVE  IInv'
    <3>1. /\ UNCHANGED <<restarts, sent, reply, current, ready, m_ctr, history>>
          /\ process' = "down" /\ stage' = "idle"
          /\ RepliesOwn' /\ GotOwn' /\ InProgress'
          /\ \A k \in Jobs : Answered(k) => Answered(k)'
      BY <2>4, GoesDown DEF storageVars, Answered, RepliesOwn, GotOwn
    <3>2. RecordsOwned'
      BY <3>1, OwnersStay
    <3> QED
      BY <3>1, <3>2, <2>types, <2>same DEF TypeOK
  <2>5. ASSUME NEW j \in Jobs, start_predict(j)
        PROVE  IInv'
    <3>1. /\ UNCHANGED <<process, restarts, sent, reply, got, m_ctr, history>>
          /\ stage' = "predicting" /\ current' = j /\ ready' \in BOOLEAN
          /\ images' = Whole(sent[j]) /\ results' = <<>>
          /\ process = "up" /\ sent[j] # None /\ ~Answered(j)
          /\ sent[j].path = "/predict" /\ sent[j].parts # <<>>
      BY <2>5 DEF start_predict, Called, clientVars, storageVars, Whole, Answered
    <3>2. RepliesOwn' /\ GotOwn'
      BY <3>1 DEF RepliesOwn, GotOwn, Whole
    <3>3. InProgress'
      <4>1. ~Answered(current)'
        BY <3>1 DEF Answered
      <4>2. /\ results' = [f \in DOMAIN results' |-> results'[f]]
            /\ DOMAIN results' = {}
        BY <3>1
      <4> QED
        BY <3>1, <4>1, <4>2 DEF InProgress, Whole
    <3>4. RecordsOwned'
      BY <3>1, OwnersStay DEF Answered
    <3> QED
      BY <3>1, <3>2, <3>3, <3>4, <2>types, <2>same DEF TypeOK
  <2>6. ASSUME NEW f \in DOMAIN images \ DOMAIN results, stage = "predicting",
               results' = Assign(results, f, run(images[f])),
               UNCHANGED <<process, restarts, stage, current, images, ready, clientVars>>,
               UNCHANGED storageVars
        PROVE  IInv'
    <3>1. UNCHANGED <<process, restarts, stage, current, images, ready>>
          /\ UNCHANGED <<sent, reply, got, m_ctr, history>>
      BY <2>6 DEF clientVars, storageVars
    <3>2. RepliesOwn' /\ GotOwn'
      BY <3>1 DEF RepliesOwn, GotOwn, Whole
    <3>3. InProgress'
      <4>1. /\ DOMAIN results' = {f} \cup DOMAIN results
            /\ results' = [x \in DOMAIN results' |-> results'[x]]
            /\ \A x \in DOMAIN results : results'[x] = results[x]
            /\ results'[f] \in {images[f], ""}
        BY <2>6 DEF Assign, run
      <4>2. ~Answered(current)'
        BY <2>6, <3>1 DEF Answered, InProgress
      <4> QED
        BY <2>6, <3>1, <4>1, <4>2 DEF InProgress, Whole
    <3>4. RecordsOwned'
      BY <3>1, OwnersStay DEF Answered
    <3> QED
      BY <3>1, <3>2, <3>3, <3>4, <2>types, <2>same DEF TypeOK
  <2>7. CASE save_and_reply
    <3>1. PICK c \in Jobs : c = current
      BY DEF TypeOK
    <3>2. stage = "predicting" /\ AllDone /\ ~Answered(c) /\ sent[c] # None
          /\ sent[c].path = "/predict" /\ sent[c].parts # <<>>
      BY <2>7, <3>1 DEF save_and_reply, InProgress
    <3>3. ASSUME Combinable, generateHandle, save(m_ctr, results),
                 make_reply(current, Ok("predict", results))
          PROVE  IInv'
      <4>1. results = Whole(sent[c])
        BY <3>1, <3>2, <3>3, ResultsWhole
      <4>2. /\ RepliesOwn' /\ GotOwn' /\ InProgress'
            /\ \A k \in Jobs : Answered(k) \/ k = c => Answered(k)'
        BY <3>1, <3>2, <3>3, <4>1, MakesReply
      <4>3. RecordsOwned'
        BY <3>1, <3>2, <3>3, <4>2, SaveOwned DEF make_reply
      <4> QED
        BY <3>3, <4>2, <4>3, <2>types, <2>same, <2>counts DEF make_reply, TypeOK
    <3>4. ASSUME Combinable, generateHandle,
                 save(m_ctr, results) \/ UNCHANGED history, goes_down
          PROVE  IInv'
      <4>1. /\ UNCHANGED <<restarts, sent, reply, current, ready>>
            /\ process' = "down" /\ stage' = "idle"
            /\ RepliesOwn' /\ GotOwn' /\ InProgress'
            /\ \A k \in Jobs : Answered(k) \/ k = c => Answered(k)'
        BY <3>2, <3>4, GoesDown DEF Answered, RepliesOwn, GotOwn
      <4>2. RecordsOwned'
        <5>1. CASE save(m_ctr, results)
          BY <3>1, <3>2, <3>4, <4>1, <5>1, SaveOwned
        <5>2. CASE UNCHANGED history
          BY <4>1, <5>2, OwnersStay
        <5> QED
          BY <3>4, <5>1, <5>2
      <4> QED
        BY <3>4, <4>1, <4>2, <2>types, <2>same, <2>counts DEF TypeOK
    <3> QED
      BY <2>7, <3>3, <3>4, <2>4 DEF save_and_reply
  <2>8. CASE restart
    <3>1. /\ UNCHANGED <<sent, reply, got, stage, current, images, results, ready, history>>
          /\ process = "down" /\ process' = "up"
          /\ restarts' \in 0..MaxRestarts /\ m_ctr' \in 0..(HandleRange - 1)
      BY <2>8, FaultsAssumption, HandleAssumption
         DEF restart, StorageRestart, handlerVars, clientVars, TypeOK
    <3>2. RepliesOwn' /\ GotOwn'
      BY <3>1 DEF RepliesOwn, GotOwn, Whole
    <3>3. InProgress'
      BY <3>1 DEF InProgress
    <3>4. RecordsOwned'
      BY <3>1, OwnersStay DEF Answered
    <3> QED
      BY <3>1, <3>2, <3>3, <3>4, <2>types, <2>same DEF TypeOK
  <2>9. CASE UNCHANGED vars
    <3>1. /\ UNCHANGED <<process, restarts, sent, stage, current, images, results, ready>>
          /\ UNCHANGED <<reply, got, m_ctr, history>>
      BY <2>9 DEF vars, handlerVars, clientVars, storageVars
    <3>2. TypeOK' /\ (DOMAIN sent = Jobs)' /\ RepliesOwn' /\ GotOwn'
      BY <3>1 DEF TypeOK, RepliesOwn, GotOwn, Whole
    <3>3. InProgress'
      <4>1. Answered(current)' <=> Answered(current)
        BY <3>1 DEF Answered
      <4>2. Whole(sent[current])' = Whole(sent[current])
        BY <3>1 DEF Whole
      <4> QED
        BY <3>1, <4>1, <4>2 DEF InProgress
    <3>4. RecordsOwned'
      BY <3>1, OwnersStay DEF Answered
    <3>5. SentFinite'
      BY <3>1 DEF SentFinite
    <3> QED
      BY <3>2, <3>3, <3>4, <3>5
  <2>10. ASSUME NEW j \in Jobs, refuse(j) \/ tell_history(j)
         PROVE  IInv'
    <3>1. CASE refuse(j)
      BY <3>1, <2>3 DEF refuse
    <3>2. CASE tell_history(j)
      BY <3>2, <2>3, <2>4 DEF tell_history
    <3> QED
      BY <2>10, <3>1, <3>2
  <2>11. CASE predict_image
    BY <2>11, <2>4, <2>6 DEF predict_image
  <2>12. CASE crash
    BY <2>12, <2>4 DEF crash
  <2> QED
    BY <2>1, <2>2, <2>5, <2>7, <2>8, <2>9, <2>10, <2>11, <2>12
       DEF Next, handle_request, Quiet
<1>3. QED
  BY <1>1, <1>2, PTL DEF Spec

\* Every variable of the handler keeps its type.
THEOREM TypeCorrect == Spec => []TypeOK
<1>1. IInv => TypeOK
  BY DEF IInv
<1> QED
  BY <1>1, Invariance, PTL

\* No client gets somebody else's results: its reply has a result for every file name
\* in its request, that of the last file with the name, whatever else is asked, fails
\* or is restarted meanwhile (request_handler.cpp:87-120, 237).
THEOREM AnswerIsOwnAlways == Spec => []AnswerIsOwn
<1>1. IInv => AnswerIsOwn
  <2> SUFFICES ASSUME IInv, NEW j \in Jobs, got[j] # None, got[j] # Closed
               PROVE  /\ got[j].kind = "predict" =>
                           /\ sent[j].path = "/predict"
                           /\ Tells(got[j].content, sent[j].parts)
                      /\ got[j].kind = "history" => sent[j].path = "/history"
                      /\ got[j].kind = "bad_request" =>
                           /\ sent[j].path # "/history"
                           /\ sent[j].path = "/predict" => sent[j].parts = <<>>
    BY DEF AnswerIsOwn, None, Closed
  <2>1. got[j] = reply[j] /\ sent[j] # None
    BY DEF IInv, GotOwn
  <2>2. sent[j] \in Forms
    BY <2>1 DEF IInv, TypeOK
  <2>3. got[j].kind = "predict" => got[j].content = Whole(sent[j])
    BY <2>1 DEF IInv, RepliesOwn, Ok, BadRequest, None
  <2>4. got[j].kind = "predict" => Tells(got[j].content, sent[j].parts)
    BY <2>2, <2>3, WholeTells
  <2> QED
    BY <2>1, <2>4 DEF IInv, RepliesOwn, Ok, BadRequest, None
<1> QED
  BY <1>1, Invariance, PTL

\* Every record is the whole result of a request that asked for it, and no request
\* has two, also when handles are given out again (request_handler.cpp:89-110).
THEOREM RecordsWholeAlways == Spec => []RecordsWhole
<1>1. IInv => RecordsWhole
  <2> SUFFICES ASSUME IInv, NEW h \in DOMAIN history
               PROVE  Cardinality(Records(history[h])) <= Cardinality(Asking(history[h]))
    BY DEF RecordsWhole
  <2>1. PICK c : c = history[h]
    OBVIOUS
  <2>2. PICK owner \in Injection(DOMAIN history, Jobs) :
          \A k \in DOMAIN history : Answered(owner[k]) /\ owner[k] \in Asking(history[k])
    BY DEF IInv, RecordsOwned
  <2>3. IsFiniteSet(Asking(c))
    <3>1. Asking(c) \in SUBSET {j \in Jobs : sent[j] # None}
      BY DEF Asking
    <3> QED
      BY <3>1, FS_Subset DEF IInv, SentFinite
  <2>4. [k \in Records(c) |-> owner[k]] \in Injection(Records(c), Asking(c))
    <3>1. PICK f : f = [k \in Records(c) |-> owner[k]]
      OBVIOUS
    <3>2. f \in [Records(c) -> Asking(c)]
      BY <3>1, <2>2 DEF Records
    <3>3. \A a, b \in DOMAIN f : f[a] = f[b] => a = b
      BY <3>1, <2>2 DEF Records, Injection, IsInjective
    <3> QED
      BY <3>1, <3>2, <3>3 DEF Injection, IsInjective
  <2> QED
    BY <2>1, <2>3, <2>4, FS_Injection
<1> QED
  BY <1>1, Invariance, PTL

-----------------------------------------------------------------------------
\* A server process answers fewer predict requests than there are handles: m_ctr, a
\* uint32_t, does not come round to 0 within a run of the process.
HandlesSuffice == IsFiniteSet(Jobs) /\ Cardinality(Jobs) <= HandleRange

Predictions == {j \in Jobs : reply[j].kind = "predict"}

\* Each prediction that was decided has a record of its own.
PredictionsSaved ==
  \E handle \in Injection(Predictions, DOMAIN history) :
    \A j \in Predictions : history[handle[j]] = reply[j].content

\* The handles that were given out are those below m_ctr.
HandlesBelow ==
  process = "up" =>
    /\ DOMAIN history = 0..(Cardinality(Predictions) - 1)
    /\ Cardinality(Predictions) < HandleRange => m_ctr = Cardinality(Predictions)

SInv ==
  /\ DOMAIN history \subseteq 0..(HandleRange - 1)
  /\ restarts = 0 => PredictionsSaved /\ HandlesBelow

\* A request in progress is not among the predictions, so there is a handle for it,
\* and it is a new one.
LEMMA HandleNew ==
  ASSUME HandlesSuffice, IInv, SInv, restarts = 0, stage = "predicting"
  PROVE  /\ IsFiniteSet(Predictions) /\ Cardinality(Predictions) \in Nat
         /\ Cardinality(Predictions) < HandleRange
         /\ m_ctr = Cardinality(Predictions)
         /\ m_ctr \notin DOMAIN history
<1>1. Predictions \in SUBSET (Jobs \ {current})
  <2>1. reply[current] = None
    BY DEF IInv, InProgress, Answered
  <2> QED
    BY <2>1 DEF Predictions, None
<1>2. current \in Jobs /\ process = "up"
  BY DEF IInv, TypeOK, InProgress
<1>3. IsFiniteSet(Jobs \ {current}) /\ Cardinality(Jobs \ {current}) = Cardinality(Jobs) - 1
  BY <1>2, FS_RemoveElement DEF HandlesSuffice
<1>4. /\ IsFiniteSet(Predictions) /\ Cardinality(Predictions) \in Nat
      /\ Cardinality(Predictions) <= Cardinality(Jobs \ {current})
  BY <1>1, <1>3, FS_Subset, FS_CardinalityType
<1>5. Cardinality(Jobs) \in Nat
  BY FS_CardinalityType DEF HandlesSuffice
<1>6. Cardinality(Predictions) < HandleRange
  BY <1>3, <1>4, <1>5, HandleAssumption DEF HandlesSuffice
<1> QED
  BY <1>2, <1>4, <1>6 DEF SInv, HandlesBelow

\* As long as no prediction is decided and no record written or replaced, each
\* prediction still has its record.
LEMMA SavedStay ==
  ASSUME PredictionsSaved, Predictions' = Predictions, UNCHANGED history,
         \A j \in Predictions : reply'[j] = reply[j]
  PROVE  PredictionsSaved'
BY DEF PredictionsSaved

\* Without wrap-around save adds a field and replaces none.
LEMMA SaveAdds ==
  ASSUME HandlesSuffice, IInv, SInv, restarts = 0, stage = "predicting",
         save(m_ctr, results)
  PROVE  /\ DOMAIN history' = 0..Cardinality(Predictions)
         /\ m_ctr \in DOMAIN history' /\ history'[m_ctr] = results
         /\ \A h \in DOMAIN history : h \in DOMAIN history' /\ history'[h] = history[h]
<1>1. /\ m_ctr = Cardinality(Predictions) /\ m_ctr \notin DOMAIN history
      /\ Cardinality(Predictions) \in Nat
  BY HandleNew
<1>2. DOMAIN history = 0..(m_ctr - 1)
  BY <1>1 DEF SInv, HandlesBelow, IInv, InProgress
<1>3. DOMAIN history' = {m_ctr} \cup DOMAIN history
  BY DEF save, Assign
<1>4. 0..m_ctr = {m_ctr} \cup 0..(m_ctr - 1)
  BY <1>1
<1> QED
  BY <1>1, <1>2, <1>3, <1>4 DEF save, Assign

\* The request that save_and_reply answers joins the predictions, with its record.
LEMMA PredictionJoins ==
  ASSUME HandlesSuffice, IInv, SInv, restarts = 0, stage = "predicting",
         NEW c \in Jobs, c = current,
         save(m_ctr, results), make_reply(c, Ok("predict", results))
  PROVE  /\ PredictionsSaved'
         /\ Predictions' = Predictions \cup {c} /\ c \notin Predictions
<1>1. /\ \A j \in Jobs : reply'[j] = IF j = c THEN Ok("predict", results) ELSE reply[j]
      /\ reply[c] = None
  BY DEF make_reply, IInv, RepliesOwn, InProgress, Answered
<1>2. Predictions' = Predictions \cup {c} /\ c \notin Predictions
  <2>1. c \notin Predictions /\ c \in Predictions'
    BY <1>1 DEF Predictions, Ok, None
  <2>2. \A j \in Jobs : j # c => (j \in Predictions' <=> j \in Predictions)
    BY <1>1 DEF Predictions
  <2>3. Predictions \subseteq Jobs /\ Predictions' \subseteq Jobs
    BY DEF Predictions
  <2> QED
    BY <2>1, <2>2, <2>3
<1>3. PICK handle \in Injection(Predictions, DOMAIN history) :
        \A j \in Predictions : history[handle[j]] = reply[j].content
  BY DEF SInv, PredictionsSaved
<1>4. /\ DOMAIN handle = Predictions
      /\ \A j \in Predictions : handle[j] \in DOMAIN history
  BY DEF Injection
<1>5. PICK n : n = m_ctr
  OBVIOUS
<1>6. /\ n \in DOMAIN history' /\ n \notin DOMAIN history /\ history'[n] = results
      /\ \A h \in DOMAIN history : h \in DOMAIN history' /\ history'[h] = history[h]
  BY <1>5, SaveAdds, HandleNew
<1>7. PICK next :
        /\ next = [j \in Predictions' |-> next[j]]
        /\ next[c] = n
        /\ \A j \in Predictions : next[j] = handle[j]
  <2> WITNESS Assign(handle, c, n)
  <2> QED
    BY <1>2, <1>4 DEF Assign
<1>8. next \in Injection(Predictions', DOMAIN history')
  <2>1. next \in [Predictions' -> DOMAIN history']
    BY <1>2, <1>4, <1>6, <1>7
  <2>2. ASSUME NEW a \in Predictions', NEW b \in Predictions', next[a] = next[b]
        PROVE  a = b
    BY <2>2, <1>2, <1>4, <1>6, <1>7 DEF Injection, IsInjective
  <2>3. DOMAIN next = Predictions'
    BY <1>7
  <2> QED
    BY <2>1, <2>2, <2>3 DEF Injection, IsInjective
<1>9. \A j \in Predictions' : history'[next[j]] = reply'[j].content
  <2>1. history'[next[c]] = reply'[c].content
    BY <1>1, <1>6, <1>7 DEF Ok
  <2>2. ASSUME NEW j \in Predictions
        PROVE  history'[next[j]] = reply'[j].content
    <3>1. reply'[j] = reply[j]
      BY <1>1, <1>2 DEF Predictions
    <3>2. next[j] = handle[j] /\ handle[j] \in DOMAIN history
      BY <1>4, <1>7
    <3> QED
      BY <3>1, <3>2, <1>3, <1>6
  <2> QED
    BY <1>2, <2>1, <2>2
<1>10. PredictionsSaved'
  BY <1>8, <1>9 DEF PredictionsSaved
<1> QED
  BY <1>2, <1>10

\* In the first life of the process, with enough handles, save never replaces a record,
\* and every prediction that was answered has a record of its own.
THEOREM RecordsInvariance == ASSUME HandlesSuffice PROVE Spec => []SInv
<1>1. Init => SInv
  <2> SUFFICES ASSUME Init
               PROVE  SInv
    OBVIOUS
  <2>1. DOMAIN history = {} /\ Predictions = {} /\ m_ctr = 0
    <3>1. \A j \in Jobs : reply[j] = None
      BY DEF Init
    <3>2. Predictions = {}
      BY <3>1 DEF Predictions, None
    <3> QED
      BY <3>2 DEF Init, StorageInit
  <2>2. PredictionsSaved
    <3>1. PICK handle : handle = [j \in {} |-> current]
      OBVIOUS
    <3>2. handle \in [{} -> DOMAIN history] /\ \A a, b \in DOMAIN handle : a = b
      BY <3>1
    <3>3. handle \in Injection(Predictions, DOMAIN history)
      BY <2>1, <3>2 DEF Injection, IsInjective
    <3> QED
      BY <2>1, <3>3 DEF PredictionsSaved
  <2>3. HandlesBelow
    <3>1. Cardinality(Predictions) = 0
      BY <2>1, FS_EmptySet
    <3> QED
      BY <2>1, <3>1 DEF HandlesBelow
  <2> QED
    BY <2>1, <2>2, <2>3 DEF SInv
<1>2. IInv /\ SInv /\ [Next]_vars => SInv'
  <2> SUFFICES ASSUME IInv, SInv, [Next]_vars
               PROVE  SInv'
    OBVIOUS
  <2>range. save(m_ctr, results) => DOMAIN history' \subseteq 0..(HandleRange - 1)
    BY DEF save, Assign, SInv, IInv, TypeOK
  <2>frame. ASSUME UNCHANGED <<restarts, m_ctr, history>>,
                   process' = "up" => process = "up",
                   \A j \in Jobs : \/ reply'[j] = reply[j]
                                   \/ /\ reply'[j].kind # "predict"
                                      /\ reply[j].kind # "predict"
            PROVE  SInv'
    <3>1. Predictions' = Predictions /\ \A j \in Predictions : reply'[j] = reply[j]
      BY <2>frame DEF Predictions
    <3>2. PredictionsSaved => PredictionsSaved'
      BY <2>frame, <3>1, SavedStay
    <3>3. HandlesBelow => HandlesBelow'
      BY <2>frame, <3>1 DEF HandlesBelow
    <3> QED
      BY <2>frame, <3>2, <3>3 DEF SInv
  <2>1. ASSUME NEW j \in Jobs, Called(j), NEW r, make_reply(j, r),
               r.kind # "predict", UNCHANGED storageVars
        PROVE  SInv'
    <3>1. reply[j].kind # "predict"
      BY <2>1 DEF Called, None
    <3> QED
      BY <2>1, <2>frame, <3>1 DEF make_reply, storageVars, IInv, RepliesOwn
  <2>2. ASSUME goes_down, UNCHANGED storageVars
        PROVE  SInv'
    BY <2>2, <2>frame, GoesDown DEF storageVars
  <2>3. CASE save_and_reply
    <3>1. PICK c \in Jobs : c = current
      BY DEF IInv, TypeOK
    <3>2. stage = "predicting"
      BY <2>3 DEF save_and_reply
    <3>3. ASSUME Combinable, generateHandle, save(m_ctr, results),
                 make_reply(current, Ok("predict", results))
          PROVE  SInv'
      <4>1. restarts' = restarts
        BY <3>3 DEF make_reply
      <4>2. ASSUME restarts = 0
            PROVE  PredictionsSaved' /\ HandlesBelow'
        <5>1. /\ PredictionsSaved'
              /\ Predictions' = Predictions \cup {c} /\ c \notin Predictions
          BY <3>1, <3>2, <3>3, <4>2, PredictionJoins
        <5>2. /\ IsFiniteSet(Predictions) /\ Cardinality(Predictions) \in Nat
              /\ Cardinality(Predictions) < HandleRange
              /\ m_ctr = Cardinality(Predictions)
          BY <3>2, <4>2, HandleNew
        <5>3. Cardinality(Predictions') = Cardinality(Predictions) + 1
          BY <5>1, <5>2, FS_AddElement
        <5>4. DOMAIN history' = 0..Cardinality(Predictions)
          BY <3>2, <3>3, <4>2, SaveAdds
        <5>5. Cardinality(Predictions) + 1 < HandleRange
                => m_ctr' = Cardinality(Predictions) + 1
          BY <3>3, <5>2, HandleAssumption DEF generateHandle
        <5> QED
          BY <5>1, <5>2, <5>3, <5>4, <5>5 DEF HandlesBelow
      <4> QED
        BY <2>range, <3>3, <4>1, <4>2 DEF SInv
    <3>4. ASSUME save(m_ctr, results) \/ UNCHANGED history, goes_down
          PROVE  SInv'
      <4>1. UNCHANGED <<restarts, reply>> /\ process' = "down"
        BY <3>4, GoesDown
      <4>2. Predictions' = Predictions
        BY <4>1 DEF Predictions
      <4>3. ASSUME restarts = 0
            PROVE  PredictionsSaved'
        <5>1. CASE save(m_ctr, results)
          <6>1. PICK handle \in Injection(Predictions, DOMAIN history) :
                  \A j \in Predictions : history[handle[j]] = reply[j].content
            BY <4>3 DEF SInv, PredictionsSaved
          <6>2. \A h \in DOMAIN history : h \in DOMAIN history' /\ history'[h] = history[h]
            BY <3>2, <4>3, <5>1, SaveAdds
          <6>3. handle \in Injection(Predictions, DOMAIN history')
            BY <6>2 DEF Injection
          <6>4. \A j \in Predictions : handle[j] \in DOMAIN history
            BY DEF Injection
          <6> QED
            BY <4>1, <4>2, <6>1, <6>2, <6>3, <6>4 DEF PredictionsSaved
        <5>2. CASE UNCHANGED history
          BY <4>1, <4>2, <4>3, <5>2, SavedStay DEF SInv
        <5> QED
          BY <3>4, <5>1, <5>2
      <4>4. HandlesBelow'
        BY <4>1 DEF HandlesBelow
      <4> QED
        BY <2>range, <3>4, <4>1, <4>3, <4>4 DEF SInv
    <3> QED
      BY <2>2, <2>3, <3>3, <3>4 DEF save_and_reply
  <2>4. CASE restart
    BY <2>4 DEF restart, StorageRestart, SInv, IInv, TypeOK
  <2>5. ASSUME UNCHANGED <<process, restarts, reply, m_ctr, history>>
        PROVE  SInv'
    BY <2>5, <2>frame
  <2>6. ASSUME NEW j \in Jobs, refuse(j) \/ tell_history(j)
        PROVE  SInv'
    BY <2>6, <2>1, <2>2 DEF refuse, tell_history, BadRequest, Ok
  <2>7. CASE predict_image \/ crash
    BY <2>7, <2>2, <2>5 DEF predict_image, crash, clientVars, storageVars
  <2>8. ASSUME NEW j \in Jobs, start_predict(j) \/ client_sends(j) \/ deliver(j)
        PROVE  SInv'
    BY <2>8, <2>5 DEF start_predict, client_sends, deliver, clientVars, handlerVars,
                      storageVars
  <2>9. CASE Quiet \/ UNCHANGED vars
    BY <2>9, <2>5 DEF Quiet, vars, clientVars, storageVars
  <2> QED
    BY <2>3, <2>4, <2>6, <2>7, <2>8, <2>9 DEF Next, handle_request
<1>3. QED
  BY <1>1, <1>2, Invariance, PTL DEF Spec

\* By the time a client has its results the database has them too, once for every
\* client that was told them (README.md:30, request_handler.cpp:109-113).
THEOREM AnsweredIsSavedAlways ==
  ASSUME HandlesSuffice
  PROVE  Spec => []AnsweredIsSaved
<1>1. IInv /\ SInv => AnsweredIsSaved
  <2> SUFFICES ASSUME IInv, SInv, restarts = 0, NEW c
               PROVE  Cardinality(Predicted(c)) <= Cardinality(Records(c))
    BY DEF AnsweredIsSaved
  <2>1. PICK handle \in Injection(Predictions, DOMAIN history) :
          \A j \in Predictions : history[handle[j]] = reply[j].content
    BY DEF SInv, PredictionsSaved
  <2>2. ASSUME NEW j \in Predicted(c)
        PROVE  j \in Predictions /\ reply[j].content = c
    <3>1. got[j] = reply[j]
      BY DEF Predicted, IInv, GotOwn, None, Closed
    <3> QED
      BY <3>1 DEF Predicted, Predictions
  <2>3. IsFiniteSet(Records(c))
    <3>1. IsFiniteSet(0..(HandleRange - 1))
      BY FS_Interval, HandleAssumption
    <3>2. Records(c) \in SUBSET (0..(HandleRange - 1))
      BY DEF Records, SInv
    <3> QED
      BY <3>1, <3>2, FS_Subset
  <2>4. PICK f : f = [j \in Predicted(c) |-> handle[j]]
    OBVIOUS
  <2>5. f \in [Predicted(c) -> Records(c)]
    BY <2>1, <2>2, <2>4 DEF Records, Injection
  <2>6. \A a, b \in DOMAIN f : f[a] = f[b] => a = b
    BY <2>1, <2>2, <2>4 DEF Injection, IsInjective
  <2>7. f \in Injection(Predicted(c), Records(c))
    BY <2>5, <2>6 DEF Injection, IsInjective
  <2> QED
    BY <2>3, <2>7, FS_Injection
<1> QED
  BY <1>1, Invariance, RecordsInvariance, PTL

\* A server process replaces no record and loses none: save writes under a handle
\* that is not in the hash, and nothing else writes (historyStorage.cpp:35-44).
THEOREM HistoryKeptAlways ==
  ASSUME HandlesSuffice
  PROVE  Spec => HistoryKept
<1>1. IInv /\ SInv /\ [Next]_vars =>
        [restarts = 0 =>
           \A h \in DOMAIN history : h \in DOMAIN history' /\ history'[h] = history[h]]_vars
  <2> SUFFICES ASSUME IInv, SInv, [Next]_vars, restarts = 0
               PROVE  \A h \in DOMAIN history : h \in DOMAIN history' /\ history'[h] = history[h]
    OBVIOUS
  <2>1. CASE save_and_reply
    BY <2>1, SaveAdds DEF save_and_reply, storageVars
  <2>2. CASE UNCHANGED history
    BY <2>2
  <2>3. ~save_and_reply => UNCHANGED history
    BY DEF Next, handle_request, refuse, tell_history, start_predict, predict_image,
           client_sends, deliver, crash, restart, StorageRestart, Quiet, vars, storageVars
  <2> QED
    BY <2>1, <2>2, <2>3
<1> QED
  BY <1>1, Invariance, RecordsInvariance, PTL DEF Spec, HistoryKept

\* Whoever asks for the history after another client got its results is told them
\* (request_handler.cpp:122-143).
THEOREM HistoryToldAlways ==
  ASSUME HandlesSuffice
  PROVE  Spec => HistoryTold
<1>1. IInv /\ SInv /\ [Next]_vars =>
        [\A j \in Jobs :
           reply'[j].kind = "history" /\ reply[j] = None /\ restarts = 0 =>
             \A k \in Jobs : got[k].kind = "predict" =>
               \E h \in DOMAIN reply'[j].content : reply'[j].content[h] = got[k].content]_vars
  <2> SUFFICES ASSUME IInv, SInv, [Next]_vars, restarts = 0,
                      NEW j \in Jobs, reply'[j].kind = "history", reply[j] = None,
                      NEW k \in Jobs, got[k].kind = "predict"
               PROVE  \E h \in DOMAIN reply'[j].content : reply'[j].content[h] = got[k].content
    OBVIOUS
  <2>1. reply' # reply
    BY DEF None
  <2>2. PICK i, r :
          i \in Jobs /\ make_reply(i, r) /\ (r.kind = "history" => r = Ok("history", history))
    <3>1. CASE save_and_reply
      <4>1. make_reply(current, Ok("predict", results))
        BY <2>1, <3>1 DEF save_and_reply, goes_down
      <4> QED
        BY <4>1 DEF IInv, TypeOK, Ok
    <3>2. ASSUME NEW i \in Jobs, refuse(i)
          PROVE  make_reply(i, BadRequest)
      BY <3>2 DEF refuse
    <3>3. ASSUME NEW i \in Jobs, tell_history(i)
          PROVE  make_reply(i, Ok("history", history))
      BY <2>1, <3>3 DEF tell_history, goes_down, getAll
    <3>4. \/ save_and_reply
          \/ \E i \in Jobs : refuse(i) \/ tell_history(i)
      BY <2>1 DEF Next, handle_request, start_predict, predict_image, goes_down,
              client_sends, deliver, crash, restart, Quiet, vars, clientVars, handlerVars
    <3> QED
      BY <3>1, <3>2, <3>3, <3>4 DEF BadRequest
  <2>3. i = j /\ reply'[j] = r
    BY <2>2 DEF make_reply, IInv, RepliesOwn, None
  <2>4. reply'[j].content = history
    BY <2>2, <2>3 DEF Ok
  <2>5. got[k] = reply[k]
    BY DEF IInv, GotOwn, None, Closed
  <2>6. k \in Predictions
    BY <2>5 DEF Predictions
  <2>7. PICK handle \in Injection(Predictions, DOMAIN history) :
          \A m \in Predictions : history[handle[m]] = reply[m].content
    BY DEF SInv, PredictionsSaved
  <2> QED
    BY <2>4, <2>5, <2>6, <2>7 DEF Injection
<1> QED
  BY <1>1, Invariance, RecordsInvariance, PTL DEF Spec, HistoryTold

-----------------------------------------------------------------------------
\* Both specifications mean the same by the results of a request.
LEMMA SameResults == \A form : Service!Results(form) = Whole(form)
  BY DEF Service!Results, Service!ImagesOf, Whole, ImagesOf

\* Saving is a step of the abstract service's: whole results, under a handle that a
\* server that was not started again has not used.
LEMMA SaveRecords ==
  ASSUME HandlesSuffice, IInv, SInv, stage = "predicting", AllDone, Combinable,
         save(m_ctr, results)
  PROVE  Service!Record(Service!Results(sent[current]))
<1>1. results = Service!Results(sent[current])
  BY ResultsWhole, SameResults DEF IInv
<1>2. m_ctr \in 0..(HandleRange - 1)
  BY DEF IInv, TypeOK
<1>3. restarts = 0 => m_ctr \notin DOMAIN history
  BY HandleNew
<1>4. history' = Assign(history, m_ctr, results)
  BY DEF save
<1> QED
  BY <1>1, <1>2, <1>3, <1>4 DEF Service!Record, Service!Assign, Assign

\* The steps of handle_request are hidden: a request is answered and recorded at
\* once, or the server goes down and at most one record is left of it.
THEOREM Implementation ==
  ASSUME HandlesSuffice
  PROVE  Spec => ImplementsInference
<1> USE DEF None, Closed, Service!None, Service!Closed
<1>1. Init => Service!Init
  BY DEF Init, StorageInit, Service!Init
<1>2. IInv /\ SInv /\ [Next]_vars => [Service!Next]_(Service!vars)
  <2> SUFFICES ASSUME IInv, SInv, [Next]_vars
               PROVE  [Service!Next]_(Service!vars)
    OBVIOUS
  <2>1. ASSUME NEW j \in Jobs, client_sends(j)
        PROVE  Service!Ask(j)
    BY <2>1 DEF client_sends, storageVars, Service!Ask
  <2>2. ASSUME NEW j \in Jobs, deliver(j)
        PROVE  Service!Deliver(j)
    BY <2>2 DEF deliver, storageVars, Service!Deliver
  <2>3. ASSUME NEW j \in Jobs, refuse(j)
        PROVE  Service!Refuse(j)
    BY <2>3 DEF refuse, Called, make_reply, storageVars, BadRequest,
                Service!Refuse, Service!Open, Service!Predicts, Service!Decide
  <2>4. ASSUME goes_down, process = "up",
               \/ UNCHANGED history
               \/ \E j \in Jobs : /\ Service!Open(j) /\ Service!Predicts(sent[j])
                                  /\ Service!Record(Service!Results(sent[j]))
        PROVE  Service!GoDown
    <3>1. (process = "up") = TRUE /\ (process' = "up") = FALSE
      BY <2>4 DEF goes_down
    <3> QED
      BY <2>4, <3>1 DEF goes_down, Service!GoDown
  <2>5. ASSUME NEW j \in Jobs, tell_history(j)
        PROVE  Service!Tell(j) \/ Service!GoDown
    <3>1. CASE goes_down
      BY <2>5, <2>4, <3>1 DEF tell_history, Called, storageVars
    <3>2. CASE make_reply(j, Ok("history", getAll))
      BY <2>5, <3>2 DEF tell_history, Called, make_reply, storageVars, getAll, Ok,
                        Service!Tell, Service!Open, Service!Decide
    <3> QED
      BY <2>5, <3>1, <3>2 DEF tell_history
  <2>6. ASSUME NEW j \in Jobs, start_predict(j)
        PROVE  UNCHANGED Service!vars
    BY <2>6 DEF start_predict, clientVars, storageVars, Service!vars
  <2>7. CASE predict_image
    BY <2>7, <2>4 DEF predict_image, clientVars, storageVars, Service!vars, Service!Next
  <2>8. CASE save_and_reply
    <3>1. PICK c \in Jobs : c = current
      BY DEF IInv, TypeOK
    <3>2. /\ stage = "predicting" /\ AllDone /\ process = "up"
          /\ Service!Open(c) /\ Service!Predicts(sent[c])
      BY <2>8, <3>1 DEF save_and_reply, IInv, InProgress, Answered,
                        Service!Open, Service!Predicts
    <3>3. ASSUME Combinable, save(m_ctr, results)
          PROVE  Service!Record(Service!Results(sent[c]))
      BY <3>1, <3>2, <3>3, SaveRecords
    <3>4. ASSUME Combinable, save(m_ctr, results), make_reply(c, Ok("predict", results))
          PROVE  Service!Predict(c)
      <4>1. results = Service!Results(sent[c])
        BY <3>1, <3>2, <3>4, ResultsWhole, SameResults DEF IInv
      <4> QED
        BY <3>2, <3>3, <3>4, <4>1 DEF make_reply, Ok, Service!Predict, Service!Decide
    <3>5. CASE goes_down
      BY <2>8, <2>4, <3>2, <3>3, <3>5 DEF save_and_reply, storageVars, Service!Next
    <3> QED
      BY <2>8, <3>1, <3>4, <3>5 DEF save_and_reply, Service!Next
  <2>9. CASE crash
    BY <2>9, <2>4 DEF crash, storageVars, Service!Next
  <2>10. CASE restart
    <3>1. (process = "up") = FALSE /\ (process' = "up") = TRUE /\ (restarts' = 0) = FALSE
      BY <2>10 DEF restart, IInv, TypeOK
    <3> QED
      BY <2>10, <3>1 DEF restart, StorageRestart, clientVars, Service!Next, Service!Restart
  <2>11. CASE Quiet \/ UNCHANGED vars
    BY <2>11 DEF Quiet, vars, clientVars, storageVars, Service!vars
  <2> QED
    BY <2>1, <2>2, <2>3, <2>5, <2>6, <2>7, <2>8, <2>9, <2>10, <2>11
       DEF Next, handle_request, Service!Next
<1>3. QED
  BY <1>1, <1>2, Invariance, RecordsInvariance, PTL
     DEF Spec, ImplementsInference, Service!Spec
=============================================================================
