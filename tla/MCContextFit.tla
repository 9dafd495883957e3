--------------------------- MODULE MCContextFit ---------------------------
(* ContextFit for TLC: schemas of three sizes.                             *)
EXTENDS ContextFit, TLC

CONSTANTS t1, t2, t3

MCToolCost == (t1 :> 1) @@ (t2 :> 2) @@ (t3 :> 4)
=============================================================================
