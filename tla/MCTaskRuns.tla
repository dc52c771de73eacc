---------------------------- MODULE MCTaskRuns -----------------------------
(* Two runs of the Tasks button on one model, and people at the task page. *)
EXTENDS TaskRuns, TLC

Symmetry == Permutations(Sessions)
OneModel == [s \in Sessions |-> "m1"]
=============================================================================
