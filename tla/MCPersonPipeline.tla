-------------------------- MODULE MCPersonPipeline --------------------------
(***************************************************************************)
(* PersonPipeline with batches of one or two images, one for each way a    *)
(* run can go: what one run leaves behind is there for the other.          *)
(***************************************************************************)
EXTENDS PersonPipeline

Origin == [x |-> 0, y |-> 0]
Corner == [x |-> 1, y |-> 0]

Male == <<TRUE, FALSE, FALSE, FALSE, FALSE, FALSE, FALSE, FALSE>>
HatAndCoat == <<FALSE, FALSE, FALSE, TRUE, FALSE, FALSE, FALSE, TRUE>>

\* A box in sixtieths: frames are 12 x 20 or 24 x 40, so that an edge of a pixel is
\* at 5 and 3, or at 2.5 and 1.5.
Box(left, top, right, bottom) == [left |-> left, top |-> top, right |-> right, bottom |-> bottom]

Detection(label, confident, box, top) ==
  [end |-> FALSE, label |-> label, confident |-> confident, box |-> box,
   top |-> top, bottom |-> Origin, attribs |-> Male]

End == [Detection(0, FALSE, Box(0, 0, 0, 0), Origin) EXCEPT !.end = TRUE]

Person(box) == Detection(1, TRUE, box, Origin)
Bike == Detection(2, TRUE, Box(0, 0, 30, 30), Origin)
Faint == Detection(1, FALSE, Box(0, 0, 30, 30), Origin)

Inside == [Person(Box(5, 6, 37, 36)) EXCEPT !.attribs = HatAndCoat]
LeftEdge == Person(Box(-12, 0, 20, 30))    \* four columns of it are in the frame
Outside == Person(Box(60, 0, 75, 30))      \* begins where the frame ends
Thin == Person(Box(0, 0, 10, 30))          \* no third of two columns
AtCorner == Detection(1, TRUE, Box(0, 0, 25, 30), Corner)

Image(list) == [decodable |-> TRUE, width |-> 12, height |-> 20, detections |-> list]
Larger(i) == [i EXCEPT !.width = 24, !.height = 40]
NotAnImage == [Image(<<>>) EXCEPT !.decodable = FALSE]

Images ==
  {NotAnImage, Larger(Image(<<Inside, Thin>>))} \cup
  {Image(list) : list \in {
     <<>>, <<Bike, Faint, End, Inside>>, <<Inside>>,
     <<LeftEdge, Bike, Inside, End, Outside>>,
     <<Inside, Outside>>, <<Thin>>, <<AtCorner>>}}

\* The networks of the repository, and files of others.
Detector == [inputs |-> 1, outputs |-> 1, channels |-> 3, dims |-> <<1, 1, 200, 7>>]
Attribs == [inputs |-> 1, outputs |-> 3, channels |-> 3, values |-> <<8, 2, 2>>]

Networks2(d, a) == [detection |-> d, attribs |-> a]

MCModels ==
  {Networks2(d, Attribs) : d \in {
     Detector, [Detector EXCEPT !.dims[3] = 2], [Detector EXCEPT !.channels = 1],
     [Detector EXCEPT !.inputs = 2], [Detector EXCEPT !.outputs = 2],
     [Detector EXCEPT !.dims = <<200, 7>>], [Detector EXCEPT !.dims[4] = 6]}}
  \cup
  {Networks2(Detector, a) : a \in {
     [Attribs EXCEPT !.channels = 1], [Attribs EXCEPT !.inputs = 2],
     [Attribs EXCEPT !.outputs = 1], [Attribs EXCEPT !.values[1] = 7],
     [Attribs EXCEPT !.values[2] = 1], [Attribs EXCEPT !.values[3] = 3]}}

UpTo(n) == UNION {[1..k -> Images] : k \in 1..n}
MCBatches == UpTo(2)
=============================================================================
