-------------------------- MODULE MCRequestHandler --------------------------
(***************************************************************************)
(* RequestHandler with three clients, two files and the kinds of images    *)
(* and faults the code tells apart.                                        *)
(***************************************************************************)
EXTENDS RequestHandler

Part(f, i) == [filename |-> f, image |-> i]

Predict(parts) == [path |-> "/predict", parts |-> parts]
History == [path |-> "/history", parts |-> <<>>]
Unknown == [path |-> "/", parts |-> <<Part("a.jpg", "one")>>]

\* Requests for which every image has a person in it; one with two files of one name.
Persons == {
  Predict(<<Part("a.jpg", "one"), Part("b.jpg", "two")>>),
  Predict(<<Part("a.jpg", "two"), Part("a.jpg", "one")>>) }

\* An image without a person in it, which is base64 as it should be.
NoPerson == {Predict(<<Part("a.jpg", "nobody"), Part("b.jpg", "two")>>)}

\* With such an image, and one that is not base64.
Trouble == NoPerson \cup {
  Predict(<<Part("a.jpg", "one"), Part("b.jpg", "noise")>>) }

Refused == {Predict(<<>>), Unknown}

AllForms == Persons \cup Trouble \cup Refused \cup {History}
=============================================================================
