------------------------------- MODULE Absence -------------------------------
(***************************************************************************)
(* What stands for a file, a record or an answer that is not there, in     *)
(* every module of the desk (the code's None).                             *)
(***************************************************************************)
CONSTANT Nothing
=============================================================================
