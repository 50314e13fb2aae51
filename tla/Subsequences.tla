---------------------------- MODULE Subsequences ----------------------------
(***************************************************************************)
(* The loop that runs over a list and puts the elements it wants at the    *)
(* end of another, in the order they come.  It is SelectSeq with a set of  *)
(* places for the test: the lemmas on it can be stated for every such set. *)
(***************************************************************************)
EXTENDS Naturals, Sequences

\* What has been put there after the first n elements.
ChosenAmong(s, places) ==
  LET list[n \in 0..Len(s)] ==
        IF n = 0 THEN <<>>
        ELSE IF n \in places THEN Append(list[n - 1], s[n])
        ELSE list[n - 1]
  IN list

Chosen(s, places) == ChosenAmong(s, places)[Len(s)]
=============================================================================
