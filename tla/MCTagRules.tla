----------------------------- MODULE MCTagRules -----------------------------
(* Tags of two items, whose type code people may change, pushed again and again. *)
EXTENDS TagRules, TLC

CONSTANTS t1, t2, i1, i2

MCItemOf == (t1 :> i1 @@ t2 :> i2)
=============================================================================
