-------------------------- MODULE MCRequestFraming --------------------------
(***************************************************************************)
(* RequestFraming with requests of the two shapes the client sends: one    *)
(* without a body, and one whose body is lines that end in CR LF; and with *)
(* a peer that sends one character of every class at any time.             *)
(***************************************************************************)
EXTENDS RequestFraming

\* The letters the grammar names, and one that stands for all others.
MCLetter == {"H", "T", "P", ".", "+", "-", CL, "x"}

\* One character of every class, and those with a role of their own.
MCInput == {CR, LF, SP, HT, ":", "/", "H", "T", "P", ".", "-", CL, "0", "3", "high"}

\* Enough for lengths with one or two digits and with a sign; lines.
MCKept == {SP, "-", CL, "0", "3"}
MCKeptBody == {CR, LF, "0", "high"}

\* Lengths up to twelve, as std::ostream writes them.
Decimal(n) == <<<<"0">>, <<"1">>, <<"2">>, <<"3">>, <<"4">>, <<"5">>, <<"6">>,
                <<"7">>, <<"8">>, <<"9">>, <<"1", "0">>, <<"1", "1">>, <<"1", "2">>>>[n + 1]

Field(name, value) == [name |-> name, value |-> value]

Message(extra, length, body) ==
  [uri |-> <<"/", "x">>,
   headers |-> extra \o length \o extra,
   body |-> body]

Length(n) == <<Field(<<CL>>, Decimal(n))>>

\* A header before and after, with a value the parser could trip over.
Extras == {<<>>, <<Field(<<"x">>, <<"/", ":", SP, "0">>)>>}

Lines == {<<CR, LF>>, <<"x", CR, LF>>, <<"x", SP, "high", CR, LF>>}

LineBodies == Lines \cup {k \o l : k, l \in Lines}

ClientRequests ==
  {Message(x, <<>>, <<>>) : x \in Extras} \cup
  {Message(x, Length(0), <<>>) : x \in Extras} \cup
  {Message(x, Length(Len(b)), b) : x \in Extras, b \in LineBodies}
=============================================================================
