-------------------------------- MODULE Lists --------------------------------
(***************************************************************************)
(* Leaving members out of a list, as the code does where it walks a vector *)
(* and copies what it keeps.                                               *)
(***************************************************************************)
EXTENDS SequencesExt

\* The elements of s that are not in S, in order.
without(s, S) == FoldLeft(LAMBDA kept, x : IF x \in S THEN kept ELSE Append(kept, x), <<>>, s)
=============================================================================
