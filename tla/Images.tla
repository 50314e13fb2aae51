------------------------------- MODULE Images -------------------------------
(***************************************************************************)
(* What retrieveImages is for: the files of a request as a map from file   *)
(* names to images.  ReplyText shows that the code computes it from the    *)
(* text of a request; RequestHandler starts from it.                       *)
(***************************************************************************)
EXTENDS Naturals, Sequences

\* `out[filename] = base64image', part after part: of two parts with one name
\* the later one counts.
ImagesOf(parts) ==
  LET names == {parts[i].filename : i \in DOMAIN parts}
      lastOf(f) == CHOOSE i \in DOMAIN parts :
                     /\ parts[i].filename = f
                     /\ \A j \in DOMAIN parts : parts[j].filename = f => j <= i
  IN [f \in names |-> parts[lastOf(f)].image]

\* The files that a reply can tell of: those whose name no later one has.
Lasting(parts) ==
  {i \in DOMAIN parts :
     \A j \in DOMAIN parts : j > i => parts[j].filename # parts[i].filename}

\* There is one entry for every name, and it is of the last file with that name.
Tells(content, parts) ==
  /\ DOMAIN content = {parts[i].filename : i \in DOMAIN parts}
  /\ \A i \in Lasting(parts) : content[parts[i].filename] = parts[i].image
=============================================================================
