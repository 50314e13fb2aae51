--------------------------- MODULE PersonPipeline ---------------------------
(***************************************************************************)
(* SISD::PersonPipeline: one object, init() once, then run() for one image *)
(* of a request after the other.  Each run goes through two networks: one  *)
(* finds persons, the other is run on the part of the frame each person is *)
(* in.  An inference is done by threads of the inference engine, between   *)
(* submitRequest and wait; the two requests and the detector's results are *)
(* members, so they live on from image to image, also after an exception.  *)
(*                                                                         *)
(* What the networks find in an image is part of the image here; the       *)
(* shapes of their blobs are those of the model files init() reads.        *)
(* Coordinates in a blob are fractions of the frame, in units of 1/Scale.  *)
(* Left out: the colors, which are only logged.                            *)
(***************************************************************************)
EXTENDS Integers, Sequences, Subsequences

CONSTANTS
  Batches,    \* sequences of images, one of which a request brings
  Models,     \* the shapes of the two networks there may be files of
  Failures,   \* what may fail: "load", "inference"
  Word,       \* how many values an unsigned has (2^32)
  Scale       \* how many parts the blobs divide a frame into

ASSUME WordAssumption == Word \in Nat \ {0} /\ Scale \in Nat \ {0}
ASSUME FailuresAssumption == Failures \subseteq {"load", "inference"}

\* An image of a request, and what the networks find in it.  A detection has a box
\* and the two points of the person in it whose colors are taken.
Boxes == [left : Int, top : Int, right : Int, bottom : Int]
Points == [x : Int, y : Int]
Detections ==
  [end : BOOLEAN, label : Int, confident : BOOLEAN, box : Boxes,
   top : Points, bottom : Points, attribs : [1..8 -> BOOLEAN]]
PossibleImages ==
  [decodable : BOOLEAN, width : Nat, height : Nat, detections : Seq(Detections)]

ASSUME BatchesAssumption == Batches \subseteq Seq(PossibleImages)

Networks == {"detection", "attribs"}

VARIABLES
  pc,              \* where init() or run() is
  models,          \* the shapes of the networks in the files
  loaded,          \* the networks that have been loaded
  batch,           \* the images of the request
  frame,           \* the image run() is at; 0 before the first
  requests,        \* BaseDetection::request of both networks
  size,            \* PersonDetection::width and height
  results,         \* PersonDetection::results
  resultsFetched,  \* PersonDetection::resultsFetched
  next,            \* the result the loop of run() looks at next
  rois,            \* res.rois
  failed,          \* an inference of this run failed
  answers          \* what run() returned, image by image

resultVars == <<results, resultsFetched, next, rois>>
inputVars == <<models, batch>>
vars == <<pc, inputVars, loaded, frame, requests, size, resultVars, failed, answers>>

image == batch[frame]

-----------------------------------------------------------------------------
(***************************************************************************)
(* Rectangles, as cv::Rect: the intersection is empty when it is no area.  *)
(***************************************************************************)
Rect(x, y, w, h) == [x |-> x, y |-> y, w |-> w, h |-> h]
NoRect == Rect(0, 0, 0, 0)

Largest(a, b) == IF a >= b THEN a ELSE b
Smallest(a, b) == IF a <= b THEN a ELSE b

Intersect(a, b) ==
  LET x == Largest(a.x, b.x)
      y == Largest(a.y, b.y)
      w == Smallest(a.x + a.w, b.x + b.w) - x
      h == Smallest(a.y + a.h, b.y + b.h) - y
  IN IF w <= 0 \/ h <= 0 THEN NoRect ELSE Rect(x, y, w, h)

\* The part of a frame a detection is in.
Clipped(r, i) == Intersect(r.location, Rect(0, 0, i.width, i.height))

\* The area around a color point of a person of cols x rows: the point is cut to
\* the integer 0 or 1 before it is scaled.
ColorArea(point, cols, rows) ==
  Intersect(Rect(point.x * cols - cols \div 6, point.y * rows - rows \div 10,
                 (2 * cols) \div 6, (2 * rows) \div 8),
            Rect(0, 0, cols, rows))

\* GetAvgColor does not throw: its k-means has at least one pixel.
HasColors(d, person) ==
  \A point \in {d.top, d.bottom} : ColorArea(point, person.w, person.h) # NoRect

\* static_cast<int> of n/Scale: towards zero.
Cut(n) == IF n >= 0 THEN n \div Scale ELSE -((-n) \div Scale)

\* Where a box of the blob is in a frame of w x h pixels.
Location(box, w, h) ==
  LET x == Cut(box.left * w)
      y == Cut(box.top * h)
  IN Rect(x, y, Cut(box.right * w - x * Scale), Cut(box.bottom * h - y * Scale))

\* The detections with a confidence above 0.72 that are in the blob, up to the one
\* that ends the list.
maxProposalCount == models["detection"].dims[3]
Confident(list) ==
  Chosen(list, {k \in DOMAIN list :
                  /\ k <= maxProposalCount /\ \A j \in 1..k : ~list[j].end
                  /\ list[k].confident})

\* PersonDetection::Result, for a detection in a frame of w x h pixels.
Result(d, w, h) == [label |-> d.label, location |-> Location(d.box, w, h)]

\* The text of the attributes: the names of those that were found.
attributeStrings == <<"is male", "has_bag", "has_backpack", "has hat",
                      "has longsleeves", "has longpants", "has longhair", "has coat_jacket">>
AttribText(indicators) ==
  Chosen(attributeStrings, {i \in DOMAIN attributeStrings : indicators[i]})

\* ROI: the location as it was detected, in unsigned members.
unsigned_not(v) == v                                         \* mutant
unsigned(v) == v % Word
RoiOf(r, d) ==
  [x |-> unsigned(r.location.x), y |-> unsigned(r.location.y),
   w |-> unsigned(r.location.w), h |-> unsigned(r.location.h),
   attrib |-> AttribText(d.attribs)]

\* constructJsonMessage, for one image: without a ROI there is no text ("").
constructJsonMessage(list) == [empty |-> list = <<>>, rois |-> list]
NoText == constructJsonMessage(<<>>)

-----------------------------------------------------------------------------
\* What a network is run on: an image of the batch, or one of the results there.
Input(f, k) == [frame |-> f, result |-> k]
Idle == [state |-> "idle", input |-> Input(0, 0), output |-> Input(0, 0)]

Init ==
  /\ pc = "init_detection"
  /\ models \in Models
  /\ loaded = {}
  /\ batch \in Batches
  /\ frame = 0
  /\ requests = [n \in Networks |-> Idle]
  /\ size = [w |-> 0, h |-> 0]
  /\ results = <<>> /\ resultsFetched = FALSE
  /\ next = 1 /\ rois = <<>>
  /\ failed = FALSE
  /\ answers = <<>>

\* PersonDetection::read, what it makes sure of.  The dimensions are looked at
\* before they are counted, but if there are fewer than four it throws whatever it
\* has seen there.
reads_detection(m) == m.inputs = 1 /\ m.outputs = 1 /\ Len(m.dims) = 4 /\ m.dims[4] = 7

\* PersonAttribsDetection::read
reads_attribs(m) == m.inputs = 1 /\ m.outputs = 3

Readable(network) ==
  IF network = "detection" THEN reads_detection(models[network])
  ELSE reads_attribs(models[network])

\* init(): the two networks, one after the other.  An exception ends it, and what
\* it returns is not looked at.
load(network, at, then) ==
  /\ pc = at
  /\ \/ Readable(network) /\ loaded' = loaded \cup {network} /\ pc' = then
     \/ /\ ~Readable(network) \/ "load" \in Failures
        /\ pc' = "run"
        /\ UNCHANGED loaded
  /\ UNCHANGED <<inputVars, frame, requests, size, resultVars, failed, answers>>

init ==
  \/ load("detection", "init_detection", "init_attribs")
  \/ load("attribs", "init_attribs", "run")

\* run() returns.
answer(json) ==
  /\ answers' = Append(answers, json)
  /\ pc' = "run"
  /\ UNCHANGED <<inputVars, loaded, frame, size, results, resultsFetched, next, rois>>

\* Any exception is caught, and jsonOut is still empty.
caught == answer(NoText) /\ UNCHANGED <<requests, failed>>

\* matU8ToBlob throws unless the matrix has the channels of the network, one or
\* three of them, and a pixel to be resized.
Fits(network, channels, empty) ==
  channels = models[network].channels /\ channels \in {1, 3} /\ ~empty

\* A network that was not loaded cannot create its request.
CanEnqueue(network, channels, empty) == network \in loaded /\ Fits(network, channels, empty)

\* BaseDetection::enqueue
enqueue(network, input) ==
  requests' = [requests EXCEPT ![network].input = input]

\* IMREAD_COLOR gives three channels; the matrix of what is no image has one.
Channels(i) == IF i.decodable THEN 3 ELSE 1

\* Mutant: the size of the first frame stays.
take_size_once(w, h) == size' = IF size.w = 0 THEN [w |-> w, h |-> h] ELSE size

\* PersonDetection::enqueue
take_size(w, h) == size' = [w |-> w, h |-> h]

\* run(): decode the next image and give it to the detector.  An image that cannot
\* be decoded is an empty matrix.
start ==
  /\ pc = "run" /\ frame < Len(batch)
  /\ frame' = frame + 1
  /\ LET i == batch[frame + 1]
     IN /\ IF i.decodable THEN take_size(i.width, i.height) ELSE take_size(0, 0)
        /\ \/ /\ CanEnqueue("detection", Channels(i), ~i.decodable)
              /\ enqueue("detection", Input(frame + 1, 0))
              /\ pc' = "submit"
              /\ UNCHANGED answers
           \/ /\ ~CanEnqueue("detection", Channels(i), ~i.decodable)
              /\ answers' = Append(answers, NoText)
              /\ pc' = "run"
              /\ UNCHANGED requests
  /\ rois' = <<>> /\ next' = 1
  /\ failed' = FALSE
  /\ UNCHANGED <<inputVars, loaded, results, resultsFetched>>

\* Mutant: nothing is started.
submitRequest_not(network) == UNCHANGED requests

\* BaseDetection::submitRequest
submitRequest(network) ==
  requests' = [requests EXCEPT ![network].state = "running"]

\* Mutant: resultsFetched stays.
submit_detection_fetched ==
  /\ pc = "submit"
  /\ results' = <<>>
  /\ submitRequest("detection")
  /\ pc' = "wait"
  /\ UNCHANGED <<inputVars, loaded, frame, size, resultsFetched, next, rois, failed, answers>>

\* PersonDetection::submitRequest
submit_detection ==
  /\ pc = "submit"
  /\ resultsFetched' = FALSE
  /\ results' = <<>>
  /\ submitRequest("detection")
  /\ pc' = "wait"
  /\ UNCHANGED <<inputVars, loaded, frame, size, next, rois, failed, answers>>

\* The inference engine.
infer(network) ==
  /\ requests[network].state = "running"
  /\ \/ /\ requests' = [requests EXCEPT ![network] =
                           [state |-> "done", input |-> @.input, output |-> @.input]]
        /\ UNCHANGED failed
     \/ /\ "inference" \in Failures
        /\ requests' = [requests EXCEPT ![network].state = "failed"]
        /\ failed' = TRUE
  /\ UNCHANGED <<pc, inputVars, loaded, frame, size, resultVars, answers>>

\* Mutant: it does not wait.
wait_not(network, at, then) ==
  /\ pc = at
  /\ pc' = then
  /\ UNCHANGED <<inputVars, loaded, frame, requests, size, resultVars, failed, answers>>

\* BaseDetection::wait, which throws when the inference has failed.
wait(network, at, then) ==
  /\ pc = at
  /\ \/ /\ requests[network].state = "done"
        /\ pc' = then
        /\ UNCHANGED <<inputVars, loaded, frame, requests, size, resultVars, failed, answers>>
     \/ requests[network].state = "failed" /\ caught

\* The detections in the detector's output blob.
detections == batch[requests["detection"].output.frame].detections

\* PersonDetection::fetchResults
fetchResults ==
  /\ pc = "fetch"
  /\ results' = IF resultsFetched THEN <<>> ELSE
       [k \in DOMAIN Confident(detections) |-> Result(Confident(detections)[k], size.w, size.h)]
  /\ resultsFetched' = TRUE
  /\ pc' = "persons"
  /\ UNCHANGED <<inputVars, loaded, frame, requests, size, next, rois, failed, answers>>

\* The loop over the results: one that is no person is passed over, a person is
\* cut out of the frame and given to the second network.
next_result ==
  /\ pc = "persons" /\ next <= Len(results)
  /\ LET r == results[next]
     IN \/ /\ r.label # 1
           /\ next' = next + 1
           /\ UNCHANGED <<pc, inputVars, loaded, frame, requests, size, results,
                          resultsFetched, rois, failed, answers>>
        \/ /\ r.label = 1
           /\ CanEnqueue("attribs", 3, Clipped(r, image) = NoRect)
           /\ enqueue("attribs", Input(frame, next))
           /\ pc' = "submit_attribs"
           /\ UNCHANGED <<inputVars, loaded, frame, size, resultVars, failed, answers>>
        \/ /\ r.label = 1
           /\ ~CanEnqueue("attribs", 3, Clipped(r, image) = NoRect)
           /\ caught

submit_attribs ==
  /\ pc = "submit_attribs"
  /\ submitRequest("attribs")
  /\ pc' = "wait_attribs"
  /\ UNCHANGED <<inputVars, loaded, frame, size, resultVars, failed, answers>>

\* GetPersonAttributes throws unless there is a value for every attribute, and a
\* point is two.
ReadsAttributes == models["attribs"].values = <<Len(attributeStrings), 2, 2>>

\* GetPersonAttributes, the two colors, and the ROI of the person.
attributes ==
  /\ pc = "attributes"
  /\ LET o == requests["attribs"].output
         found == Confident(batch[o.frame].detections)[o.result]
         told == ReadsAttributes /\ HasColors(found, Clipped(results[next], image))
     IN \/ /\ told
           /\ rois' = Append(rois, RoiOf(results[next], found))
           /\ next' = next + 1
           /\ pc' = "persons"
           /\ UNCHANGED <<inputVars, loaded, frame, requests, size, results,
                          resultsFetched, failed, answers>>
        \/ ~told /\ caught

\* The end of the loop.
return ==
  /\ pc = "persons" /\ next > Len(results)
  /\ answer(constructJsonMessage(rois))
  /\ UNCHANGED <<requests, failed>>

run ==
  \/ start \/ submit_detection \/ wait("detection", "wait", "fetch") \/ fetchResults
  \/ next_result
  \/ submit_attribs \/ wait("attribs", "wait_attribs", "attributes") \/ attributes
  \/ return

Next == init \/ run \/ \E n \in Networks : infer(n)

\* The engine finishes what was started.
Spec == Init /\ [][Next]_vars /\ WF_vars(Next)
-----------------------------------------------------------------------------
TypeOK ==
  /\ pc \in {"init_detection", "init_attribs", "run", "submit", "wait", "fetch",
             "persons", "submit_attribs", "wait_attribs", "attributes"}
  /\ loaded \subseteq Networks
  /\ frame \in 0..Len(batch)
  /\ \A n \in Networks : requests[n].state \in {"idle", "running", "done", "failed"}
  /\ next \in 1..(Len(results) + 1)
  /\ Len(answers) \in {frame - 1, frame}
  /\ \A k \in DOMAIN rois :
       {rois[k].x, rois[k].y, rois[k].w, rois[k].h} \subseteq 0..(Word - 1)

\* The persons run() is to tell of.
IsPerson(list) == {k \in DOMAIN list : list[k].label = 1}
Persons(i) == Chosen(Confident(i.detections), IsPerson(Confident(i.detections)))

\* What run() returns for an image when no inference fails: all of its persons, or
\* nothing.
Expected(i) ==
  LET p == Persons(i)
      at(k) == Result(p[k], i.width, i.height)
      told == /\ i.decodable
              /\ loaded = Networks
              /\ models["detection"].channels = 3
              /\ \A k \in DOMAIN p :
                   LET person == Clipped(at(k), i)
                   IN /\ person # NoRect /\ HasColors(p[k], person)
                      /\ models["attribs"].channels = 3 /\ ReadsAttributes
  IN constructJsonMessage(IF told THEN [k \in DOMAIN p |-> RoiOf(at(k), p[k])] ELSE <<>>)

\* What run() returns depends on its image alone, not on the images before it nor
\* on how their runs ended: every person of the image in the order of the
\* detections, or nothing if one of them cannot be told of
\* (PersonPipeline.cpp:175-207, 438-568).
RunIsFunction ==
  [][Len(answers') > Len(answers) =>
       answers'[Len(answers')] = IF failed' THEN NoText ELSE Expected(batch[frame'])]_vars

\* An output is read after its inference is done, and it is the output for the
\* frame, or the person, at hand (PersonPipeline.cpp:463-468, 487-497).
OutputsAreCurrent ==
  /\ pc = "fetch" => requests["detection"].state = "done"
                     /\ requests["detection"].output = Input(frame, 0)
  /\ pc = "attributes" => requests["attribs"].state = "done"
                          /\ requests["attribs"].output = Input(frame, next)

\* Every image of the request gets its answer, whatever failed
\* (request_handler.cpp:89-102).
AllRun == <>(pc = "run" /\ Len(answers) = Len(batch))
=============================================================================
