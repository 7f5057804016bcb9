------------------------------ MODULE Selection ------------------------------
(***************************************************************************)
(* What is kept of a sequence, in its order: the calls of some kinds, when  *)
(* a page or an app goes, and the names that people have.  (SelectSeq,     *)
(* written out as a function of how many have been looked at, so that      *)
(* SequenceProofs can say what it gives for every sequence.)               *)
(***************************************************************************)
EXTENDS Integers, Sequences

\* What is at these places.
AtPlaces(s, places) ==
  LET selected[n \in 0..Len(s)] ==
        IF n = 0 THEN <<>>
        ELSE IF n \in places THEN Append(selected[n - 1], s[n]) ELSE selected[n - 1]
  IN  selected[Len(s)]

\* The calls of these kinds.
OfKind(s, kinds) == AtPlaces(s, {i \in 1..Len(s) : s[i].kind \in kinds})
=============================================================================
