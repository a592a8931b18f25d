----------------------------- MODULE Subsequences ------------------------------
(* Parts of sequences, as Array.filter leaves them.                        *)
EXTENDS SequencesExt

(* The elements of seq at the positions in I, in their order.              *)
ElementsAt(seq, I) ==
  FlattenSeq([i \in DOMAIN seq |-> IF i \in I THEN <<seq[i]>> ELSE <<>>])
================================================================================
