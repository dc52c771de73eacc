-------------------------------- MODULE Lists --------------------------------
(***************************************************************************)
(* What the modules that go through lists share: Vec::retain and           *)
(* Iterator::filter, by the set of what they let through.                  *)
(***************************************************************************)
EXTENDS Sequences, SequencesExt

\* The members of a sequence that are wanted, in their order.
Only(seq, wanted) == FoldLeft(LAMBDA kept, x : IF x \in wanted THEN Append(kept, x) ELSE kept, <<>>, seq)
=============================================================================
