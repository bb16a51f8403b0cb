------------------------------ MODULE Selection ------------------------------
(***************************************************************************)
(* A comprehension with a condition, [x for x in s if x in S]: SelectSeq   *)
(* with a set for the condition, so that what it does can be a lemma.      *)
(***************************************************************************)
EXTENDS SequencesExt

\* The elements of s that are in S, in their order.
Kept(s, S) ==
  LET kept[i \in 0 .. Len(s)] ==
        IF i = 0 THEN <<>>
        ELSE IF s[i] \in S THEN Append(kept[i - 1], s[i]) ELSE kept[i - 1]
  IN kept[Len(s)]
=============================================================================
