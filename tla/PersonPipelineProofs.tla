------------------------ MODULE PersonPipelineProofs ------------------------
(***************************************************************************)
(* Proofs about PersonPipeline, for every batch of images, every pair of   *)
(* networks, every Word and Scale, and whatever may fail: the type         *)
(* invariant, that an output is read for what it was submitted for, and    *)
(* that what run() returns depends on its image alone.                     *)
(*                                                                         *)
(* The inductive invariant says, besides types, which inference may be     *)
(* running (Engine), what the requests hold (Current), what start has left *)
(* for the rest of the run (Frames, Fresh), and that the ROIs in the loop  *)
(* are those of the persons among the results before next, each of which   *)
(* can be told of (Loop).                                                  *)
(***************************************************************************)
EXTENDS PersonPipeline, SubsequencesProofs, TLAPS

Inputs == [frame : Nat, result : Nat]
Requests == [state : {"idle", "running", "done", "failed"}, input : Inputs, output : Inputs]

Rects == [x : Int, y : Int, w : Int, h : Int]
Results == [label : Int, location : Rects]
Words == 0..(Word - 1)
Rois == {RoiOf(r, d) : r \in Results, d \in Detections}
Answers == {constructJsonMessage(list) : list \in Seq(Rois)}

Typed ==
  /\ pc \in {"init_detection", "init_attribs", "run", "submit", "wait", "fetch",
             "persons", "submit_attribs", "wait_attribs", "attributes"}
  /\ loaded \subseteq Networks
  /\ batch \in Batches
  /\ frame \in 0..Len(batch)
  /\ requests \in [Networks -> Requests]
  /\ results \in Seq(Results)
  /\ resultsFetched \in BOOLEAN /\ failed \in BOOLEAN
  /\ next \in 1..(Len(results) + 1)
  /\ rois \in Seq(Rois)
  /\ answers \in Seq(Answers)

\* An inference runs only while run() waits for it, and only then it can have failed
\* unnoticed.
Engine ==
  /\ requests["detection"].state = "running" => pc = "wait"
  /\ requests["attribs"].state = "running" => pc = "wait_attribs"
  /\ pc = "wait" /\ requests["detection"].state = "failed" => failed
  /\ pc = "wait_attribs" /\ requests["attribs"].state = "failed" => failed
  /\ failed => \/ pc = "run"
               \/ pc = "wait" /\ requests["detection"].state = "failed"
               \/ pc = "wait_attribs" /\ requests["attribs"].state = "failed"

\* A request holds the input at hand, and once it is done the output for it.
Current ==
  /\ pc \in {"submit", "wait", "fetch"} => requests["detection"].input = Input(frame, 0)
  /\ pc \in {"wait", "fetch"} /\ requests["detection"].state = "done" =>
       requests["detection"].output = Input(frame, 0)
  /\ pc = "fetch" => requests["detection"].state = "done"
  /\ pc \in {"submit_attribs", "wait_attribs", "attributes"} =>
       requests["attribs"].input = Input(frame, next)
  /\ pc \in {"wait_attribs", "attributes"} /\ requests["attribs"].state = "done" =>
       requests["attribs"].output = Input(frame, next)
  /\ pc = "attributes" => requests["attribs"].state = "done"

\* Whether run() is not in the middle of an image.
Between == pc \in {"init_detection", "init_attribs", "run"}

Frames ==
  /\ Between => Len(answers) = frame
  /\ ~Between =>
       /\ frame >= 1 /\ Len(answers) = frame - 1
       /\ image.decodable
       /\ "detection" \in loaded /\ models["detection"].channels = 3
       /\ size = [w |-> image.width, h |-> image.height]

\* Nothing of the run before is left when the results are fetched.
Fresh ==
  /\ pc \in {"submit", "wait", "fetch"} => next = 1 /\ rois = <<>>
  /\ pc \in {"wait", "fetch"} => resultsFetched = FALSE

\* What the detector found in the image at hand, and the persons of it before the
\* n-th result.
Found == Confident(image.detections)
SoFar(n) == ChosenAmong(Found, IsPerson(Found))[n - 1]

Told(d) ==
  LET person == Clipped(Result(d, image.width, image.height), image)
  IN /\ person # NoRect /\ HasColors(d, person)
     /\ "attribs" \in loaded /\ models["attribs"].channels = 3 /\ ReadsAttributes

RoisOf(list) ==
  [k \in DOMAIN list |-> RoiOf(Result(list[k], image.width, image.height), list[k])]

InLoop ==
  /\ results = [k \in DOMAIN Found |-> Result(Found[k], image.width, image.height)]
  /\ rois = RoisOf(SoFar(next))
  /\ \A k \in DOMAIN SoFar(next) : Told(SoFar(next)[k])

\* The result at hand is a person that was given to the second network.
AtPerson ==
  /\ next <= Len(results)
  /\ results[next].label = 1 /\ Clipped(results[next], image) # NoRect
  /\ "attribs" \in loaded /\ models["attribs"].channels = 3

Loop ==
  /\ pc \in {"persons", "submit_attribs", "wait_attribs", "attributes"} => InLoop
  /\ pc \in {"submit_attribs", "wait_attribs", "attributes"} => AtPerson

IInv == Typed /\ Engine /\ Current /\ Frames /\ Fresh /\ Loop

-----------------------------------------------------------------------------
\* A location is made of integers: cutting and the products are exact.
LEMMA ResultType ==
  ASSUME NEW d \in Detections, NEW w \in Nat, NEW h \in Nat
  PROVE Result(d, w, h) \in Results
<1>1. \A n \in Int : Cut(n) \in Int
  BY WordAssumption DEF Cut
<1>2. d.label \in Int /\ d.box \in Boxes
  BY DEF Detections
<1>3. /\ d.box.left * w \in Int /\ d.box.top * h \in Int
      /\ d.box.right * w \in Int /\ d.box.bottom * h \in Int
  BY <1>2 DEF Boxes
<1> DEFINE x == Cut(d.box.left * w)
           y == Cut(d.box.top * h)
<1>4. x \in Int /\ y \in Int
  BY <1>1, <1>3
<1> HIDE DEF x, y
<1>5. d.box.right * w - x * Scale \in Int /\ d.box.bottom * h - y * Scale \in Int
  BY <1>3, <1>4, WordAssumption
<1>6. Cut(d.box.right * w - x * Scale) \in Int /\ Cut(d.box.bottom * h - y * Scale) \in Int
  BY <1>1, <1>5
<1>7. Location(d.box, w, h) =
        Rect(x, y, Cut(d.box.right * w - x * Scale), Cut(d.box.bottom * h - y * Scale))
  BY DEF Location, x, y
<1>8. Location(d.box, w, h) \in Rects
  BY <1>4, <1>6, <1>7 DEF Rect, Rects
<1> QED BY <1>2, <1>8 DEF Result, Results

\* The members of a ROI are unsigned.
LEMMA RoiWords ==
  ASSUME NEW roi \in Rois
  PROVE {roi.x, roi.y, roi.w, roi.h} \subseteq Words
<1>1. PICK r \in Results, d \in Detections : roi = RoiOf(r, d)
  BY DEF Rois
<1>2. /\ r.location.x \in Int /\ r.location.y \in Int
      /\ r.location.w \in Int /\ r.location.h \in Int
  BY DEF Results, Rects
<1>3. \A v \in Int : unsigned(v) \in Words
  BY WordAssumption DEF unsigned, Words
<1> QED BY <1>1, <1>2, <1>3 DEF RoiOf

\* What run() returns is a text.
LEMMA TextsAreAnswers ==
  /\ <<>> \in Seq(Rois) /\ NoText \in Answers
  /\ \A list \in Seq(Rois) : constructJsonMessage(list) \in Answers
<1>1. <<>> \in Seq(Rois)
  OBVIOUS
<1>2. \A list \in Seq(Rois) : constructJsonMessage(list) \in Answers
  BY DEF Answers
<1> QED BY <1>1, <1>2 DEF NoText

\* What may be done with a request leaves the requests what they are.
LEMMA RequestType ==
  ASSUME Typed, NEW n \in Networks
  PROVE /\ \A i \in Inputs : [requests EXCEPT ![n].input = i] \in [Networks -> Requests]
        /\ \A st \in {"idle", "running", "done", "failed"} :
             [requests EXCEPT ![n].state = st] \in [Networks -> Requests]
        /\ [requests EXCEPT ![n] =
              [state |-> "done", input |-> @.input, output |-> @.input]]
             \in [Networks -> Requests]
<1>1. requests \in [Networks -> Requests] /\ requests[n] \in Requests
  BY DEF Typed
<1>2. \A i \in Inputs : [requests[n] EXCEPT !.input = i] \in Requests
  BY <1>1 DEF Requests
<1>3. \A st \in {"idle", "running", "done", "failed"} :
        [requests[n] EXCEPT !.state = st] \in Requests
  BY <1>1 DEF Requests
<1>4. [state |-> "done", input |-> requests[n].input, output |-> requests[n].input]
        \in Requests
  BY <1>1 DEF Requests
<1>5. \A q \in Requests : [requests EXCEPT ![n] = q] \in [Networks -> Requests]
  BY <1>1
<1> QED BY <1>2, <1>3, <1>4, <1>5

\* The images are what the batches are made of.
LEMMA ImageType ==
  ASSUME Typed, NEW n \in 1..Len(batch)
  PROVE batch[n] \in PossibleImages
BY BatchesAssumption DEF Typed

\* The detector's list is one of detections.
LEMMA ConfidentType ==
  ASSUME NEW list \in Seq(Detections)
  PROVE Confident(list) \in Seq(Detections)
BY ChosenType DEF Confident

\* What is known of the image at hand.
LEMMA FoundType ==
  ASSUME Typed, Frames, ~Between
  PROVE /\ image \in PossibleImages /\ frame \in 1..Len(batch)
        /\ Found \in Seq(Detections)
<1>1. frame \in 1..Len(batch)
  BY DEF Typed, Frames
<1>2. image \in PossibleImages
  BY <1>1, ImageType DEF image
<1>3. image.detections \in Seq(Detections)
  BY <1>2 DEF PossibleImages
<1> QED BY <1>1, <1>2, <1>3, ConfidentType DEF Found

\* The persons so far are a list, empty at first, that grows by the result at hand if
\* it is a person.
LEMMA SoFarIs ==
  ASSUME Found \in Seq(Detections)
  PROVE /\ \A n \in 1..(Len(Found) + 1) : SoFar(n) \in Seq(Detections)
        /\ SoFar(1) = <<>>
        /\ \A n \in 1..Len(Found) :
             SoFar(n + 1) = IF Found[n].label = 1 THEN Append(SoFar(n), Found[n]) ELSE SoFar(n)
        /\ SoFar(Len(Found) + 1) = Chosen(Found, IsPerson(Found))
<1> DEFINE c == ChosenAmong(Found, IsPerson(Found))
<1>1. /\ c \in [0..Len(Found) -> Seq(Detections)]
      /\ c[0] = <<>>
      /\ \A n \in 1..Len(Found) :
           c[n] = IF n \in IsPerson(Found) THEN Append(c[n - 1], Found[n]) ELSE c[n - 1]
  BY ChosenAmongIs
<1>2. \A n \in 1..Len(Found) : n \in IsPerson(Found) <=> Found[n].label = 1
  BY DEF IsPerson
<1>3. \A n \in 1..(Len(Found) + 1) : SoFar(n) = c[n - 1]
  BY DEF SoFar
<1>4. Chosen(Found, IsPerson(Found)) = c[Len(Found)]
  BY DEF Chosen
<1> HIDE DEF c
<1>5. Len(Found) \in Nat
  OBVIOUS
<1>6. ASSUME NEW n \in 1..(Len(Found) + 1)
      PROVE  SoFar(n) \in Seq(Detections)
  <2>1. n - 1 \in 0..Len(Found)
    BY <1>5
  <2>2. c[n - 1] \in Seq(Detections)
    BY <1>1, <2>1
  <2> QED BY <1>3, <2>2
<1>7. SoFar(1) = <<>> /\ SoFar(Len(Found) + 1) = Chosen(Found, IsPerson(Found))
  <2>1. 1 \in 1..(Len(Found) + 1) /\ Len(Found) + 1 \in 1..(Len(Found) + 1)
    BY <1>5
  <2>2. SoFar(1) = c[0] /\ SoFar(Len(Found) + 1) = c[Len(Found)]
    BY <1>3, <1>5, <2>1
  <2> QED BY <1>1, <1>4, <2>2
<1>8. ASSUME NEW n \in 1..Len(Found)
      PROVE  SoFar(n + 1) = IF Found[n].label = 1 THEN Append(SoFar(n), Found[n]) ELSE SoFar(n)
  <2>1. SoFar(n) = c[n - 1] /\ SoFar(n + 1) = c[n]
    BY <1>3, <1>5
  <2>2. c[n] = IF n \in IsPerson(Found) THEN Append(c[n - 1], Found[n]) ELSE c[n - 1]
    BY <1>1
  <2> QED BY <1>2, <2>1, <2>2
<1> QED BY <1>6, <1>7, <1>8

\* What the loop's invariant is about only changes when a step of the loop changes it.
LEMMA Steady ==
  ASSUME UNCHANGED <<models, batch, frame>>
  PROVE /\ image' = image /\ Found' = Found
        /\ \A list : RoisOf(list)' = RoisOf(list)
        /\ \A d : loaded' = loaded => (Told(d)' <=> Told(d))
<1>1. image' = image
  BY DEF image
<1>2. Found' = Found
  BY <1>1 DEF Found, Confident, maxProposalCount
<1> QED BY <1>1, <1>2 DEF RoisOf, Told, ReadsAttributes

\* The loop over the results does not notice what an inference request does meanwhile.
LEMMA LoopSteady ==
  ASSUME UNCHANGED <<models, batch, frame, loaded, results, rois, next>>
  PROVE (InLoop => InLoop') /\ (AtPerson => AtPerson')
<1>1. /\ image' = image /\ Found' = Found
      /\ \A list : RoisOf(list)' = RoisOf(list)
      /\ \A d : Told(d)' <=> Told(d)
  BY Steady
<1>2. SoFar(next)' = SoFar(next)
  BY <1>1 DEF SoFar
<1>3. InLoop => InLoop'
  <2> SUFFICES ASSUME InLoop PROVE InLoop'
    OBVIOUS
  <2>1. results' = [k \in DOMAIN Found' |-> Result(Found'[k], image'.width, image'.height)]
    BY <1>1 DEF InLoop
  <2>2. rois' = RoisOf(SoFar(next))'
    BY <1>1, <1>2 DEF InLoop
  <2>3. \A k \in DOMAIN SoFar(next)' : Told(SoFar(next)[k])'
    BY <1>1, <1>2 DEF InLoop
  <2> QED BY <2>1, <2>2, <2>3 DEF InLoop
<1>4. AtPerson => AtPerson'
  BY <1>1 DEF AtPerson
<1> QED BY <1>3, <1>4

-----------------------------------------------------------------------------
\* Before init the pipeline holds nothing that could be of another image.
LEMMA InitInv == Init => IInv
<1> SUFFICES ASSUME Init PROVE IInv
  OBVIOUS
<1>1. Typed
  <2>1. Len(batch) \in Nat
    BY BatchesAssumption DEF Init
  <2>2. Idle \in Requests
    BY DEF Idle, Input, Inputs, Requests
  <2>3. results \in Seq(Results) /\ rois \in Seq(Rois) /\ answers \in Seq(Answers)
    BY DEF Init
  <2>4. requests \in [Networks -> Requests]
    BY <2>2 DEF Init
  <2>5. next \in 1..(Len(results) + 1) /\ frame \in 0..Len(batch)
    BY <2>1 DEF Init
  <2> QED BY <2>3, <2>4, <2>5 DEF Init, Typed
<1>2. Engine /\ Current /\ Frames /\ Fresh /\ Loop
  BY DEF Init, Engine, Current, Frames, Fresh, Loop, Between, Idle, Networks
<1> QED BY <1>1, <1>2 DEF IInv

\* The steps of init().
LEMMA InitSteps == IInv /\ init => IInv'
<1> SUFFICES ASSUME IInv, init PROVE IInv'
  OBVIOUS
<1>1. /\ pc \in {"init_detection", "init_attribs"}
      /\ pc' \in {"init_attribs", "run"}
      /\ loaded' = loaded \/ \E n \in Networks : loaded' = loaded \cup {n}
      /\ UNCHANGED <<inputVars, frame, requests, size, resultVars, failed, answers>>
  BY DEF init, load, Networks
<1>2. Typed'
  BY <1>1 DEF IInv, Typed, inputVars, resultVars
<1>3. Engine' /\ Current' /\ Frames' /\ Fresh' /\ Loop'
  BY <1>1 DEF IInv, Engine, Current, Frames, Fresh, Loop, Between, inputVars, resultVars
<1> QED BY <1>2, <1>3 DEF IInv

\* The next image.
LEMMA StartStep == IInv /\ start => IInv'
<1> SUFFICES ASSUME IInv, start PROVE IInv'
  OBVIOUS
<1>1. /\ pc = "run" /\ frame < Len(batch) /\ frame' = frame + 1
      /\ rois' = <<>> /\ next' = 1 /\ failed' = FALSE
      /\ UNCHANGED <<models, batch, loaded, results, resultsFetched>>
      /\ image' = batch[frame + 1]
  BY DEF start, inputVars, image
<1>2. frame \in Nat /\ Len(batch) \in Nat /\ Len(answers) = frame
  BY <1>1, BatchesAssumption DEF IInv, Typed, Frames, Between
<1>3. /\ next' \in 1..(Len(results') + 1) /\ rois' \in Seq(Rois)
      /\ frame' \in 0..Len(batch')
  BY <1>1, <1>2, TextsAreAnswers DEF IInv, Typed
<1>4. CASE /\ CanEnqueue("detection", Channels(image'), ~image'.decodable)
           /\ enqueue("detection", Input(frame + 1, 0))
           /\ pc' = "submit"
           /\ answers' = answers
  <2>1. /\ requests' \in [Networks -> Requests]
        /\ requests'["detection"].input = Input(frame + 1, 0)
        /\ \A n \in Networks : requests'[n].state = requests[n].state
    <3>1. Input(frame + 1, 0) \in Inputs /\ "detection" \in Networks
      BY <1>2 DEF Input, Inputs, Networks
    <3>2. requests' = [requests EXCEPT !["detection"].input = Input(frame + 1, 0)]
      BY <1>4 DEF enqueue
    <3>3. requests' \in [Networks -> Requests]
      BY <3>1, <3>2, RequestType DEF IInv
    <3> QED BY <3>1, <3>2, <3>3 DEF IInv, Typed, Requests
  <2>2. /\ image'.decodable /\ "detection" \in loaded /\ models["detection"].channels = 3
        /\ size' = [w |-> image'.width, h |-> image'.height]
    BY <1>1, <1>4 DEF start, CanEnqueue, Fits, Channels, take_size
  <2>3. Typed'
    BY <1>1, <1>4, <2>1, <1>3 DEF IInv, Typed
  <2>4. Engine' /\ Current'
    BY <1>1, <1>4, <2>1 DEF IInv, Engine, Current, Networks
  <2>5. Frames' /\ Fresh' /\ Loop'
    BY <1>1, <1>2, <1>4, <2>2 DEF Frames, Fresh, Loop, Between
  <2> QED BY <2>3, <2>4, <2>5 DEF IInv
<1>5. CASE /\ answers' = Append(answers, NoText)
           /\ pc' = "run"
           /\ UNCHANGED requests
  <2>1. NoText \in Answers
    BY TextsAreAnswers
  <2>2. answers' \in Seq(Answers) /\ Len(answers') = frame'
    BY <1>1, <1>2, <1>5, <2>1 DEF IInv, Typed
  <2>3. Typed'
    BY <1>1, <1>5, <2>2, <1>3 DEF IInv, Typed
  <2>4. Engine' /\ Current' /\ Frames' /\ Fresh' /\ Loop'
    BY <1>1, <1>5, <2>2 DEF IInv, Engine, Current, Frames, Fresh, Loop, Between
  <2> QED BY <2>3, <2>4 DEF IInv
<1> QED BY <1>1, <1>4, <1>5 DEF start

\* The detector's request is started, and its results are forgotten.
LEMMA SubmitDetectionStep == IInv /\ submit_detection => IInv'
<1> SUFFICES ASSUME IInv, submit_detection PROVE IInv'
  OBVIOUS
<1>1. /\ pc = "submit" /\ pc' = "wait"
      /\ resultsFetched' = FALSE /\ results' = <<>>
      /\ UNCHANGED <<models, batch, loaded, frame, size, next, rois, failed, answers>>
      /\ image' = image
  BY DEF submit_detection, inputVars, image
<1>2. /\ requests' \in [Networks -> Requests]
      /\ requests'["detection"].state = "running"
      /\ requests'["detection"].input = requests["detection"].input
      /\ requests'["attribs"] = requests["attribs"]
  BY DEF IInv, Typed, submit_detection, submitRequest, Requests, Networks
<1>3. next = 1
  BY <1>1 DEF IInv, Fresh
<1>4. Typed'
  <2>1. results' \in Seq(Results) /\ next' \in 1..(Len(results') + 1)
    BY <1>1, <1>3
  <2> QED BY <1>1, <1>2, <2>1 DEF IInv, Typed
<1>5. Engine' /\ Current' /\ Frames' /\ Fresh' /\ Loop'
  BY <1>1, <1>2 DEF IInv, Engine, Current, Frames, Fresh, Loop, Between
<1> QED BY <1>4, <1>5 DEF IInv

\* The inference engine finishes, or fails.
LEMMA InferStep == IInv /\ (\E n \in Networks : infer(n)) => IInv'
<1> SUFFICES ASSUME IInv, NEW n \in Networks, infer(n) PROVE IInv'
  OBVIOUS
<1>1. /\ requests[n].state = "running"
      /\ UNCHANGED <<pc, models, batch, loaded, frame, size, results, resultsFetched, next,
                     rois, answers>>
      /\ image' = image
  BY DEF infer, inputVars, resultVars, image
<1>2. pc = IF n = "detection" THEN "wait" ELSE "wait_attribs"
  BY <1>1 DEF IInv, Engine, Networks
<1>3. /\ \/ /\ requests' = [requests EXCEPT ![n] =
                                [state |-> "done", input |-> @.input, output |-> @.input]]
            /\ failed' = failed
         \/ /\ requests' = [requests EXCEPT ![n].state = "failed"]
            /\ failed' = TRUE
  BY DEF infer
<1>4. /\ requests' \in [Networks -> Requests]
      /\ \A o \in Networks : requests'[o].input = requests[o].input
      /\ \A o \in Networks \ {n} : requests'[o] = requests[o]
      /\ \/ /\ requests'[n].state = "done" /\ failed' = failed
            /\ requests'[n].output = requests[n].input
         \/ requests'[n].state = "failed" /\ failed' = TRUE
  <2>1. CASE /\ requests' = [requests EXCEPT ![n] =
                              [state |-> "done", input |-> @.input, output |-> @.input]]
             /\ failed' = failed
    <3>1. requests' \in [Networks -> Requests]
      BY <2>1, RequestType DEF IInv
    <3> QED BY <2>1, <3>1 DEF IInv, Typed, Requests
  <2>2. CASE requests' = [requests EXCEPT ![n].state = "failed"] /\ failed' = TRUE
    <3>1. requests' \in [Networks -> Requests]
      BY <2>2, RequestType DEF IInv
    <3> QED BY <2>2, <3>1 DEF IInv, Typed, Requests
  <2> QED BY <1>3, <2>1, <2>2
<1>5. Typed'
  BY <1>1, <1>4 DEF IInv, Typed
<1>6. Engine'
  BY <1>1, <1>2, <1>4 DEF IInv, Engine, Networks
<1>7. Current'
  BY <1>1, <1>2, <1>4 DEF IInv, Current, Networks
<1>8. Frames' /\ Fresh'
  BY <1>1 DEF IInv, Frames, Fresh, Between
<1>9. Loop'
  BY <1>1, LoopSteady DEF IInv, Loop
<1> QED BY <1>5, <1>6, <1>7, <1>8, <1>9 DEF IInv

\* run() returns, from anywhere in it.
LEMMA AnswerStep ==
  ASSUME IInv, ~Between, answer(constructJsonMessage(rois)) \/ answer(NoText),
         UNCHANGED <<requests, failed>>,
         \A n \in Networks : requests[n].state # "running"
  PROVE IInv'
<1>1. /\ pc' = "run"
      /\ UNCHANGED <<models, batch, loaded, frame, size, results, resultsFetched, next, rois>>
      /\ requests' = requests /\ failed' = failed
  BY DEF answer, inputVars
<1>2. /\ constructJsonMessage(rois) \in Answers /\ NoText \in Answers
      /\ answers \in Seq(Answers)
  BY TextsAreAnswers DEF IInv, Typed
<1>3. answers' \in Seq(Answers) /\ Len(answers') = Len(answers) + 1
  BY <1>2 DEF answer
<1>4. Typed'
  BY <1>1, <1>3 DEF IInv, Typed
<1>5. Len(answers') = frame' /\ Between'
  BY <1>1, <1>3 DEF IInv, Typed, Frames, Between
<1>6. Engine' /\ Current' /\ Frames' /\ Fresh' /\ Loop'
  BY <1>1, <1>5 DEF IInv, Engine, Current, Frames, Fresh, Loop, Networks
<1> QED BY <1>4, <1>6 DEF IInv

\* run() waits for the detector.
LEMMA WaitDetectionStep == IInv /\ wait("detection", "wait", "fetch") => IInv'
<1> SUFFICES ASSUME IInv, wait("detection", "wait", "fetch") PROVE IInv'
  OBVIOUS
<1>1. CASE /\ requests["detection"].state = "done" /\ pc = "wait" /\ pc' = "fetch"
           /\ UNCHANGED <<inputVars, loaded, frame, requests, size, resultVars, failed,
                          answers>>
  <2>1. image' = image
    BY <1>1 DEF image, inputVars
  <2>2. Typed'
    BY <1>1 DEF IInv, Typed, inputVars, resultVars
  <2>3. Engine' /\ Current' /\ Frames' /\ Fresh' /\ Loop'
    BY <1>1, <2>1
       DEF IInv, Engine, Current, Frames, Fresh, Loop, Between, inputVars, resultVars
  <2> QED BY <2>2, <2>3 DEF IInv
<1>2. CASE requests["detection"].state = "failed" /\ pc = "wait" /\ caught
  <2>1. /\ ~Between /\ \A n \in Networks : requests[n].state # "running"
        /\ answer(NoText) /\ UNCHANGED <<requests, failed>>
    BY <1>2 DEF IInv, Engine, Between, Networks, caught
  <2> QED BY <2>1, AnswerStep
<1> QED BY <1>1, <1>2 DEF wait

\* The detector's results are read.
LEMMA FetchStep == IInv /\ fetchResults => IInv'
<1> SUFFICES ASSUME IInv, fetchResults PROVE IInv'
  OBVIOUS
<1>1. /\ pc = "fetch" /\ pc' = "persons"
      /\ resultsFetched' = TRUE
      /\ UNCHANGED <<models, batch, loaded, frame, requests, size, next, rois, failed, answers>>
  BY DEF fetchResults, inputVars
<1>2. /\ resultsFetched = FALSE /\ next = 1 /\ rois = <<>>
      /\ requests["detection"].output = Input(frame, 0)
      /\ size = [w |-> image.width, h |-> image.height] /\ ~Between
  BY <1>1 DEF IInv, Fresh, Current, Frames, Between
<1>3. detections = image.detections
  BY <1>2 DEF detections, image, Input
<1>4. results' = [k \in DOMAIN Found |-> Result(Found[k], image.width, image.height)]
  BY <1>2, <1>3 DEF fetchResults, Found
<1>5. image \in PossibleImages /\ Found \in Seq(Detections)
  BY <1>2, FoundType DEF IInv
<1>6. /\ image' = image /\ Found' = Found
      /\ \A list : RoisOf(list)' = RoisOf(list)
  BY <1>1, Steady
<1>7. results' \in Seq(Results)
  <2>1. image.width \in Nat /\ image.height \in Nat
    BY <1>5 DEF PossibleImages
  <2>2. \A k \in 1..Len(Found) : Result(Found[k], image.width, image.height) \in Results
    BY <1>5, <2>1, ResultType
  <2> QED BY <1>4, <1>5, <2>2
<1>8. next' \in 1..(Len(results') + 1)
  BY <1>1, <1>2, <1>7
<1>9. Typed'
  BY <1>1, <1>7, <1>8 DEF IInv, Typed
<1>10. InLoop'
  <2>1. SoFar(1) = <<>>
    BY <1>5, SoFarIs
  <2>2. SoFar(next)' = <<>>
    BY <1>1, <1>2, <1>6, <2>1 DEF SoFar
  <2>3. RoisOf(<<>>) = <<>>
    BY DEF RoisOf
  <2>4. rois' = RoisOf(SoFar(next))'
    BY <1>1, <1>2, <1>6, <2>2, <2>3
  <2>5. results' = [k \in DOMAIN Found' |-> Result(Found'[k], image'.width, image'.height)]
    BY <1>4, <1>6
  <2>6. \A k \in DOMAIN SoFar(next)' : Told(SoFar(next)[k])'
    BY <2>2
  <2> QED BY <2>4, <2>5, <2>6 DEF InLoop
<1>11. Engine' /\ Current' /\ Frames' /\ Fresh' /\ Loop'
  BY <1>1, <1>2, <1>6, <1>10 DEF IInv, Engine, Current, Frames, Fresh, Loop, Between
<1> QED BY <1>9, <1>11 DEF IInv

\* In the loop, the result at hand is what became of a detection.
LEMMA AtResult ==
  ASSUME IInv, pc \in {"persons", "submit_attribs", "wait_attribs", "attributes"},
         next <= Len(results)
  PROVE /\ Len(results) = Len(Found) /\ next \in 1..Len(Found)
        /\ Found \in Seq(Detections) /\ Found[next] \in Detections
        /\ results[next] = Result(Found[next], image.width, image.height)
        /\ results[next].label = Found[next].label
        /\ results[next] \in Results
<1>1. ~Between
  BY DEF Between
<1>2. Found \in Seq(Detections)
  BY <1>1, FoundType DEF IInv
<1>3. results = [k \in DOMAIN Found |-> Result(Found[k], image.width, image.height)]
  BY DEF IInv, Loop, InLoop
<1>4. Len(results) = Len(Found) /\ next \in 1..Len(Found)
  BY <1>2, <1>3 DEF IInv, Typed
<1>5. results[next] = Result(Found[next], image.width, image.height)
  BY <1>2, <1>3, <1>4
<1> QED BY <1>2, <1>4, <1>5 DEF Result, IInv, Typed

\* A person is given to the second network, anything else is passed over.
LEMMA NextResultStep == IInv /\ next_result => IInv'
<1> SUFFICES ASSUME IInv, next_result PROVE IInv'
  OBVIOUS
<1>1. pc = "persons" /\ next <= Len(results) /\ ~Between
  BY DEF next_result, Between
<1>2. /\ Len(results) = Len(Found) /\ next \in 1..Len(Found)
      /\ Found \in Seq(Detections)
      /\ results[next].label = Found[next].label
  BY <1>1, AtResult
<1>3. ~failed /\ \A n \in Networks : requests[n].state # "running"
  BY <1>1 DEF IInv, Engine, Networks
<1>4. CASE /\ results[next].label # 1
           /\ next' = next + 1
           /\ UNCHANGED <<pc, inputVars, loaded, frame, requests, size, results,
                          resultsFetched, rois, failed, answers>>
  <2>1. /\ image' = image /\ Found' = Found
        /\ \A list : RoisOf(list)' = RoisOf(list)
        /\ \A d : Told(d)' <=> Told(d)
    BY <1>4, Steady DEF inputVars
  <2>2. SoFar(next)' = SoFar(next)
    <3>1. SoFar(next + 1) = SoFar(next)
      BY <1>2, <1>4, SoFarIs
    <3>2. SoFar(next)' = SoFar(next + 1)
      BY <1>4, <2>1 DEF SoFar
    <3> QED BY <3>1, <3>2
  <2>3. InLoop'
    <3>1. InLoop
      BY <1>1 DEF IInv, Loop
    <3>2. results' = [k \in DOMAIN Found' |-> Result(Found'[k], image'.width, image'.height)]
      BY <1>4, <2>1, <3>1 DEF InLoop
    <3>3. rois' = RoisOf(SoFar(next))'
      BY <1>4, <2>1, <2>2, <3>1 DEF InLoop
    <3>4. \A k \in DOMAIN SoFar(next)' : Told(SoFar(next)[k])'
      BY <2>1, <2>2, <3>1 DEF InLoop
    <3> QED BY <3>2, <3>3, <3>4 DEF InLoop
  <2>4. next' \in 1..(Len(results') + 1)
    BY <1>2, <1>4
  <2>5. Typed'
    BY <1>4, <2>4 DEF IInv, Typed, inputVars
  <2>6. Engine' /\ Current' /\ Frames' /\ Fresh' /\ Loop'
    BY <1>1, <1>4, <2>1, <2>3
       DEF IInv, Engine, Current, Frames, Fresh, Loop, Between, inputVars
  <2> QED BY <2>5, <2>6 DEF IInv
<1>5. CASE /\ results[next].label = 1
           /\ CanEnqueue("attribs", 3, Clipped(results[next], image) = NoRect)
           /\ enqueue("attribs", Input(frame, next))
           /\ pc' = "submit_attribs"
           /\ UNCHANGED <<inputVars, loaded, frame, size, resultVars, failed, answers>>
  <2>1. /\ requests' \in [Networks -> Requests]
        /\ requests'["attribs"].input = Input(frame, next)
        /\ \A n \in Networks : requests'[n].state = requests[n].state
    <3>1. Input(frame, next) \in Inputs /\ "attribs" \in Networks
      BY <1>2, BatchesAssumption DEF IInv, Typed, Input, Inputs, Networks
    <3>2. requests' = [requests EXCEPT !["attribs"].input = Input(frame, next)]
      BY <1>5 DEF enqueue
    <3>3. requests' \in [Networks -> Requests]
      BY <3>1, <3>2, RequestType DEF IInv
    <3> QED BY <3>1, <3>2, <3>3 DEF IInv, Typed, Requests
  <2>2. AtPerson
    BY <1>1, <1>5 DEF AtPerson, CanEnqueue, Fits
  <2>3. Loop'
    BY <1>1, <1>5, <2>2, LoopSteady DEF IInv, Loop, inputVars, resultVars
  <2>4. Typed'
    BY <1>5, <2>1 DEF IInv, Typed, inputVars, resultVars
  <2>5. image' = image
    BY <1>5 DEF image, inputVars
  <2>6. Engine' /\ Current' /\ Frames' /\ Fresh'
    BY <1>1, <1>3, <1>5, <2>1, <2>5
       DEF IInv, Engine, Current, Frames, Fresh, Between, Networks, inputVars, resultVars
  <2> QED BY <2>3, <2>4, <2>6 DEF IInv
<1>6. CASE caught
  BY <1>1, <1>3, <1>6, AnswerStep DEF caught
<1> QED BY <1>4, <1>5, <1>6 DEF next_result

\* The second network's request is started.
LEMMA SubmitAttribsStep == IInv /\ submit_attribs => IInv'
<1> SUFFICES ASSUME IInv, submit_attribs PROVE IInv'
  OBVIOUS
<1>1. /\ pc = "submit_attribs" /\ pc' = "wait_attribs"
      /\ UNCHANGED <<models, batch, loaded, frame, size, results, resultsFetched, next, rois,
                     failed, answers>>
      /\ image' = image
  BY DEF submit_attribs, inputVars, resultVars, image
<1>2. /\ requests' \in [Networks -> Requests]
      /\ requests'["attribs"].state = "running"
      /\ requests'["attribs"].input = requests["attribs"].input
      /\ requests'["detection"] = requests["detection"]
  <2>1. requests' = [requests EXCEPT !["attribs"].state = "running"] /\ "attribs" \in Networks
    BY DEF submit_attribs, submitRequest, Networks
  <2>2. requests' \in [Networks -> Requests]
    BY <2>1, RequestType DEF IInv
  <2> QED BY <2>1, <2>2 DEF IInv, Typed, Requests, Networks
<1>3. Typed'
  BY <1>1, <1>2 DEF IInv, Typed
<1>4. Loop'
  BY <1>1, LoopSteady DEF IInv, Loop
<1>5. Engine' /\ Current' /\ Frames' /\ Fresh'
  BY <1>1, <1>2 DEF IInv, Engine, Current, Frames, Fresh, Between
<1> QED BY <1>3, <1>4, <1>5 DEF IInv

\* run() waits for the second network.
LEMMA WaitAttribsStep == IInv /\ wait("attribs", "wait_attribs", "attributes") => IInv'
<1> SUFFICES ASSUME IInv, wait("attribs", "wait_attribs", "attributes") PROVE IInv'
  OBVIOUS
<1>1. CASE /\ requests["attribs"].state = "done" /\ pc = "wait_attribs" /\ pc' = "attributes"
           /\ UNCHANGED <<inputVars, loaded, frame, requests, size, resultVars, failed,
                          answers>>
  <2>1. image' = image
    BY <1>1 DEF image, inputVars
  <2>2. Typed'
    BY <1>1 DEF IInv, Typed, inputVars, resultVars
  <2>3. Loop'
    BY <1>1, LoopSteady DEF IInv, Loop, inputVars, resultVars
  <2>4. Engine' /\ Current' /\ Frames' /\ Fresh'
    BY <1>1, <2>1 DEF IInv, Engine, Current, Frames, Fresh, Between, inputVars, resultVars
  <2> QED BY <2>2, <2>3, <2>4 DEF IInv
<1>2. CASE requests["attribs"].state = "failed" /\ pc = "wait_attribs" /\ caught
  <2>1. /\ ~Between /\ \A n \in Networks : requests[n].state # "running"
        /\ answer(NoText) /\ UNCHANGED <<requests, failed>>
    BY <1>2 DEF IInv, Engine, Between, Networks, caught
  <2> QED BY <2>1, AnswerStep
<1> QED BY <1>1, <1>2 DEF wait

\* What attributes looks at: the detection that became the result at hand.
LEMMA AtAttributes ==
  ASSUME IInv, pc = "attributes"
  PROVE LET o == requests["attribs"].output
        IN Confident(batch[o.frame].detections)[o.result] = Found[next]
<1>1. requests["attribs"].output = Input(frame, next)
  BY DEF IInv, Current
<1> QED BY <1>1 DEF Input, Found, image

\* A person is told of, or the run ends.
LEMMA AttributesStep == IInv /\ attributes => IInv'
<1> SUFFICES ASSUME IInv, attributes PROVE IInv'
  OBVIOUS
<1>1. pc = "attributes" /\ ~Between
  BY DEF attributes, Between
<1>2. AtPerson /\ InLoop
  BY <1>1 DEF IInv, Loop
<1>3. /\ Len(results) = Len(Found) /\ next \in 1..Len(Found)
      /\ Found \in Seq(Detections) /\ Found[next] \in Detections
      /\ results[next] = Result(Found[next], image.width, image.height)
      /\ Found[next].label = 1
      /\ results[next] \in Results
  BY <1>1, <1>2, AtResult DEF AtPerson
<1>4. ~failed /\ \A n \in Networks : requests[n].state # "running"
  BY <1>1 DEF IInv, Engine, Networks
<1>5. CASE /\ ReadsAttributes /\ HasColors(Found[next], Clipped(results[next], image))
           /\ rois' = Append(rois, RoiOf(results[next], Found[next]))
           /\ next' = next + 1
           /\ pc' = "persons"
           /\ UNCHANGED <<inputVars, loaded, frame, requests, size, results,
                          resultsFetched, failed, answers>>
  <2>1. /\ image' = image /\ Found' = Found
        /\ \A list : RoisOf(list)' = RoisOf(list)
        /\ \A d : Told(d)' <=> Told(d)
    BY <1>5, Steady DEF inputVars
  <2>2. SoFar(next)' = Append(SoFar(next), Found[next]) /\ SoFar(next) \in Seq(Detections)
    <3>1. SoFar(next + 1) = Append(SoFar(next), Found[next])
      BY <1>3, SoFarIs
    <3>2. SoFar(next)' = SoFar(next + 1)
      BY <1>5, <2>1 DEF SoFar
    <3>3. SoFar(next) \in Seq(Detections)
      BY <1>3, SoFarIs
    <3> QED BY <3>1, <3>2, <3>3
  <2>3. Told(Found[next])
    BY <1>2, <1>3, <1>5 DEF Told, AtPerson
  <2>4. rois' = RoisOf(SoFar(next))'
    <3>1. RoisOf(Append(SoFar(next), Found[next]))
            = Append(RoisOf(SoFar(next)), RoiOf(results[next], Found[next]))
      BY <1>3, <2>2 DEF RoisOf
    <3> QED BY <1>2, <1>5, <2>1, <2>2, <3>1 DEF InLoop
  <2>5. \A k \in DOMAIN SoFar(next)' : Told(SoFar(next)[k])'
    <3>1. \A k \in DOMAIN Append(SoFar(next), Found[next]) :
            Told(Append(SoFar(next), Found[next])[k])
      BY <1>2, <1>3, <2>2, <2>3 DEF InLoop
    <3> QED BY <2>1, <2>2, <3>1
  <2>6. InLoop'
    <3>1. results' = [k \in DOMAIN Found' |-> Result(Found'[k], image'.width, image'.height)]
      BY <1>2, <1>5, <2>1 DEF InLoop
    <3> QED BY <2>4, <2>5, <3>1 DEF InLoop
  <2>7. next' \in 1..(Len(results') + 1) /\ rois' \in Seq(Rois)
    <3>1. RoiOf(results[next], Found[next]) \in Rois
      BY <1>3 DEF Rois
    <3> QED BY <1>3, <1>5, <3>1 DEF IInv, Typed
  <2>8. Typed'
    BY <1>5, <2>7 DEF IInv, Typed, inputVars
  <2>9. Engine' /\ Current' /\ Frames' /\ Fresh' /\ Loop'
    BY <1>1, <1>4, <1>5, <2>1, <2>6
       DEF IInv, Engine, Current, Frames, Fresh, Loop, Between, Networks, inputVars
  <2> QED BY <2>8, <2>9 DEF IInv
<1>6. CASE caught
  BY <1>1, <1>4, <1>6, AnswerStep DEF caught
<1> QED BY <1>1, <1>5, <1>6, AtAttributes DEF attributes

\* The end of the loop.
LEMMA ReturnStep == IInv /\ return => IInv'
<1> SUFFICES ASSUME IInv, return PROVE IInv'
  OBVIOUS
<1>1. /\ pc = "persons" /\ answer(constructJsonMessage(rois))
      /\ UNCHANGED <<requests, failed>>
  BY DEF return
<1>2. ~Between /\ \A n \in Networks : requests[n].state # "running"
  BY <1>1 DEF IInv, Engine, Between, Networks
<1> QED BY <1>1, <1>2, AnswerStep

\* The invariant reads nothing but the variables.
LEMMA StutterStep == IInv /\ UNCHANGED vars => IInv'
<1> SUFFICES ASSUME IInv, UNCHANGED vars PROVE IInv'
  OBVIOUS
<1>1. image' = image
  BY DEF vars, inputVars, image
<1>2. Loop'
  BY LoopSteady DEF IInv, Loop, vars, inputVars, resultVars
<1>3. Typed'
  BY DEF IInv, Typed, vars, inputVars, resultVars
<1>4. Engine' /\ Current' /\ Frames' /\ Fresh'
  BY <1>1 DEF IInv, Engine, Current, Frames, Fresh, Between, vars, inputVars, resultVars
<1> QED BY <1>2, <1>3, <1>4 DEF IInv

\* The inductive invariant.
THEOREM Invariance == Spec => []IInv
<1>1. Init => IInv
  BY InitInv
<1>2. IInv /\ [Next]_vars => IInv'
  <2> SUFFICES ASSUME IInv, [Next]_vars PROVE IInv'
    OBVIOUS
  <2>1. CASE init  BY <2>1, InitSteps
  <2>2. CASE start  BY <2>2, StartStep
  <2>3. CASE submit_detection  BY <2>3, SubmitDetectionStep
  <2>4. CASE wait("detection", "wait", "fetch")  BY <2>4, WaitDetectionStep
  <2>5. CASE fetchResults  BY <2>5, FetchStep
  <2>6. CASE next_result  BY <2>6, NextResultStep
  <2>7. CASE submit_attribs  BY <2>7, SubmitAttribsStep
  <2>8. CASE wait("attribs", "wait_attribs", "attributes")  BY <2>8, WaitAttribsStep
  <2>9. CASE attributes  BY <2>9, AttributesStep
  <2>10. CASE return  BY <2>10, ReturnStep
  <2>11. CASE \E n \in Networks : infer(n)  BY <2>11, InferStep
  <2>12. CASE UNCHANGED vars  BY <2>12, StutterStep
  <2> QED
    BY <2>1, <2>2, <2>3, <2>4, <2>5, <2>6, <2>7, <2>8, <2>9, <2>10, <2>11, <2>12 DEF Next, run
<1> QED BY <1>1, <1>2, PTL DEF Spec

-----------------------------------------------------------------------------
\* Every variable keeps its type; the members of a ROI are unsigned, and there is an
\* answer for each frame but the one at hand.
THEOREM TypeCorrect == Spec => []TypeOK
<1>1. IInv => TypeOK
  <2> SUFFICES ASSUME IInv PROVE TypeOK
    OBVIOUS
  <2>1. \A n \in Networks : requests[n].state \in {"idle", "running", "done", "failed"}
    BY DEF IInv, Typed, Requests
  <2>2. Len(answers) \in {frame - 1, frame}
    BY DEF IInv, Frames
  <2>3. \A k \in DOMAIN rois :
          {rois[k].x, rois[k].y, rois[k].w, rois[k].h} \subseteq 0..(Word - 1)
    <3>1. \A k \in DOMAIN rois : rois[k] \in Rois
      BY DEF IInv, Typed
    <3> QED BY <3>1, RoiWords DEF Words
  <2> QED BY <2>1, <2>2, <2>3 DEF IInv, Typed, TypeOK
<1> QED BY <1>1, Invariance, PTL

\* An output is read when its inference is done, and for the input it was done for:
\* fetchResults and GetPersonAttributes never see the output of an earlier image, of
\* an earlier person, or of an inference that an exception left behind.
THEOREM OutputsAreCurrentAlways == Spec => []OutputsAreCurrent
<1>1. IInv => OutputsAreCurrent
  BY DEF IInv, Current, OutputsAreCurrent
<1> QED BY <1>1, Invariance, PTL

-----------------------------------------------------------------------------
\* What is expected for the image at hand, in the terms of the invariant: its persons
\* are those the loop has seen when it is through, and all of them are told of or none.
LEMMA ExpectedIs ==
  ASSUME IInv, ~Between
  PROVE LET p == SoFar(Len(Found) + 1)
        IN Expected(image) =
             IF \A k \in DOMAIN p : Told(p[k]) THEN constructJsonMessage(RoisOf(p)) ELSE NoText
<1> DEFINE p == SoFar(Len(Found) + 1)
           expected == IF \A k \in DOMAIN p : Told(p[k])
                       THEN constructJsonMessage(RoisOf(p)) ELSE NoText
<1> SUFFICES Expected(image) = expected
  OBVIOUS
<1>1. Found \in Seq(Detections)
  BY FoundType DEF IInv
<1>2. Persons(image) = p
  BY <1>1, SoFarIs DEF Persons, Found
<1>3. p \in Seq(Detections)
  BY <1>1, SoFarIs
<1> HIDE DEF p
<1>4. /\ image.decodable /\ models["detection"].channels = 3
      /\ "detection" \in loaded /\ loaded \subseteq Networks
  BY DEF IInv, Frames, Typed
<1>5. loaded = Networks <=> "attribs" \in loaded
  BY <1>4 DEF Networks
<1> DEFINE at(k) == Result(p[k], image.width, image.height)
           told == /\ image.decodable
                   /\ loaded = Networks
                   /\ models["detection"].channels = 3
                   /\ \A k \in DOMAIN p :
                        LET person == Clipped(at(k), image)
                        IN /\ person # NoRect /\ HasColors(p[k], person)
                           /\ models["attribs"].channels = 3 /\ ReadsAttributes
           list == [k \in DOMAIN p |-> RoiOf(at(k), p[k])]
<1>6. Expected(image) = constructJsonMessage(IF told THEN list ELSE <<>>)
  BY <1>2 DEF Expected
<1>7. list = RoisOf(p)
  BY DEF RoisOf
<1>8. CASE p = <<>>
  <2>1. RoisOf(p) = <<>>
    BY <1>8 DEF RoisOf
  <2> QED BY <1>6, <1>7, <1>8, <2>1 DEF NoText
<1>9. CASE p # <<>>
  <2>1. \E k \in DOMAIN p : TRUE
    BY <1>3, <1>9
  <2>2. told <=> \A k \in DOMAIN p : Told(p[k])
    BY <1>4, <1>5, <2>1 DEF Told
  <2> HIDE DEF told, list
  <2> QED BY <1>6, <1>7, <2>2 DEF NoText
<1> QED BY <1>8, <1>9

\* If the person at hand cannot be told of, nothing is expected.
LEMMA NothingExpected ==
  ASSUME IInv, pc \in {"persons", "submit_attribs", "wait_attribs", "attributes"},
         next <= Len(results), Found[next].label = 1, ~Told(Found[next])
  PROVE Expected(image) = NoText
<1> DEFINE c == ChosenAmong(Found, IsPerson(Found))
<1>1. next \in 1..Len(Found) /\ Found \in Seq(Detections)
  BY AtResult
<1>2. next \in IsPerson(Found)
  BY <1>1 DEF IsPerson
<1>3. PICK k \in 1..Len(c[Len(Found)]) : c[Len(Found)][k] = Found[next]
  <2>1. Len(Found) \in 0..Len(Found)
    BY <1>1
  <2> HIDE DEF c
  <2>2. \A m \in 0..Len(Found) : \A i \in 1..m :
          i \in IsPerson(Found) => \E k \in 1..Len(c[m]) : c[m][k] = Found[i]
    BY <1>1, ChosenCovers DEF c
  <2> QED BY <1>1, <1>2, <2>1, <2>2
<1>4. SoFar(Len(Found) + 1) = c[Len(Found)] /\ SoFar(Len(Found) + 1) \in Seq(Detections)
  BY <1>1, SoFarIs DEF Chosen
<1> HIDE DEF c
<1>5. ~Between
  BY DEF Between
<1>6. \E j \in DOMAIN SoFar(Len(Found) + 1) : ~Told(SoFar(Len(Found) + 1)[j])
  BY <1>3, <1>4
<1> QED BY <1>5, <1>6, ExpectedIs

\* A run that returns has returned what is expected.
LEMMA RunStep ==
  ASSUME IInv, [Next]_vars, Len(answers') > Len(answers)
  PROVE answers'[Len(answers')] = IF failed' THEN NoText ELSE Expected(batch[frame'])
<1> DEFINE last == answers'[Len(answers')]
<1>1. \A json : answers' = Append(answers, json) => last = json
  BY DEF IInv, Typed
<1>2. caught => last = NoText /\ frame' = frame /\ failed' = failed
  BY <1>1 DEF caught, answer
<1>3. ~failed \/ pc \in {"run", "wait", "wait_attribs"}
  BY DEF IInv, Engine
<1>4. CASE start
  <2>1. ~CanEnqueue("detection", Channels(batch[frame + 1]), ~batch[frame + 1].decodable)
    BY <1>4 DEF start, IInv, Typed
  <2>2. last = NoText /\ failed' = FALSE /\ frame' = frame + 1
    BY <1>1, <1>4, <2>1 DEF start
  <2>3. \/ "detection" \notin loaded \/ models["detection"].channels # 3
        \/ ~batch[frame + 1].decodable
    BY <2>1 DEF CanEnqueue, Fits, Channels
  <2>4. Expected(batch[frame + 1]) = NoText
    BY <2>3 DEF Expected, NoText, Networks
  <2> QED BY <2>2, <2>4
<1>5. CASE wait("detection", "wait", "fetch")
  <2>1. caught /\ failed
    BY <1>5 DEF wait, IInv, Engine
  <2> QED BY <1>2, <2>1
<1>6. CASE wait("attribs", "wait_attribs", "attributes")
  <2>1. caught /\ failed
    BY <1>6 DEF wait, IInv, Engine
  <2> QED BY <1>2, <2>1
<1>7. CASE next_result
  <2>1. /\ caught /\ pc = "persons" /\ next <= Len(results) /\ results[next].label = 1
        /\ ~CanEnqueue("attribs", 3, Clipped(results[next], image) = NoRect)
    BY <1>7 DEF next_result
  <2>2. /\ Found[next].label = 1
        /\ results[next] = Result(Found[next], image.width, image.height)
    BY <2>1, AtResult
  <2>3. ~Told(Found[next])
    BY <2>1, <2>2 DEF Told, CanEnqueue, Fits
  <2>4. Expected(image) = NoText
    BY <2>1, <2>2, <2>3, NothingExpected
  <2> QED BY <1>2, <1>3, <2>1, <2>4 DEF image
<1>8. CASE attributes
  <2>1. pc = "attributes" /\ AtPerson
    BY <1>8 DEF attributes, IInv, Loop
  <2>2. /\ Found[next].label = 1
        /\ results[next] = Result(Found[next], image.width, image.height)
    BY <2>1, AtResult DEF AtPerson
  <2>3. /\ caught
        /\ ~(ReadsAttributes /\ HasColors(Found[next], Clipped(results[next], image)))
    BY <1>8, <2>1, AtAttributes, SMTT(30) DEF attributes
  <2>4. ~Told(Found[next])
    BY <2>2, <2>3 DEF Told
  <2>5. Expected(image) = NoText
    BY <2>1, <2>2, <2>4, NothingExpected DEF AtPerson
  <2> QED BY <1>2, <1>3, <2>1, <2>3, <2>5 DEF image
<1>9. CASE return
  <2>1. /\ pc = "persons" /\ next > Len(results) /\ ~Between
        /\ last = constructJsonMessage(rois) /\ frame' = frame /\ failed' = failed
    BY <1>1, <1>9 DEF return, answer, Between
  <2>2. InLoop
    BY <2>1 DEF IInv, Loop
  <2>3. Found \in Seq(Detections)
    BY <2>1, FoundType DEF IInv
  <2>4. next = Len(Found) + 1
    BY <2>1, <2>2, <2>3 DEF InLoop, IInv, Typed
  <2>5. Expected(image) = constructJsonMessage(rois)
    BY <2>1, <2>2, <2>4, ExpectedIs DEF InLoop
  <2> QED BY <1>3, <2>1, <2>5 DEF image
<1>10. CASE init \/ submit_detection \/ fetchResults \/ submit_attribs
            \/ (\E n \in Networks : infer(n)) \/ UNCHANGED vars
  <2>1. answers' = answers
    BY <1>10 DEF init, load, submit_detection, fetchResults, submit_attribs, infer, vars
  <2> QED BY <2>1 DEF IInv, Typed
<1> QED BY <1>4, <1>5, <1>6, <1>7, <1>8, <1>9, <1>10 DEF Next, run

\* run() is a function of its image, unless an inference fails: whatever the images
\* before it were and however their runs ended, it returns every person of the image
\* in the order of the detections, or nothing if one of them cannot be told of.
THEOREM RunIsFunctionAlways == Spec => RunIsFunction
<1>1. IInv /\ [Next]_vars =>
        [Len(answers') > Len(answers) =>
           answers'[Len(answers')] = IF failed' THEN NoText ELSE Expected(batch[frame'])]_vars
  BY RunStep
<1> QED BY <1>1, Invariance, PTL DEF Spec, RunIsFunction
=============================================================================
